---------------------------- MODULE Spec2Model ----------------------------
(***************************************************************************)
(* Model of the PPTX translation backend, python_backend/generate_pptx.py: *)
(* PPTXTranslator (replacement map, text substitution with style           *)
(* preservation, slide walk, notes, save) and generate_translated_pptx.    *)
(*                                                                         *)
(* Conventions.                                                            *)
(*  - A Python str is the sequence of its code points: "H W" is            *)
(*    <<72, 32, 87>>.  Font names are strings too.                         *)
(*  - An Optional[str] / Optional[Length] / Optional[RGB] that the code    *)
(*    only ever tests by truthiness (font name, font size, colour) is      *)
(*    absent when it is <<>> / 0 / <<>>.                                   *)
(*  - A tri-state Optional[bool] (bold, italic, underline) is one of       *)
(*    "None", "True", "False".                                             *)
(*  - Sequence indices are 1-based; the code's slide_idx is index - 1.     *)
(*  - pc is the place of the run: "start" at the entry of main, "loaded"   *)
(*    after load_presentation, "slides" and "notes" in the two loops of    *)
(*    translate, "translated" after translate returned (True, n), "done"   *)
(*    after a successful save, "failed" after generate_translated_pptx     *)
(*    returned without success, "exited" after main failed on its own.     *)
(*    What the file system and the library do (the file is there, it       *)
(*    loads, it can be written) is chosen by the step that asks.           *)
(***************************************************************************)
EXTENDS Integers, Sequences, FiniteSets, TLC

VARIABLES
    source,              \* the document stored at original_file_path
    edited_slides_data,  \* the translation payload handed to the run
    presentation,        \* PPTXTranslator.presentation (in memory)
    text_replacements,   \* PPTXTranslator.text_replacements
    pc,                  \* position inside generate_translated_pptx
    slide_idx,           \* next slide of the loop the run is in (1-based)
    total_replaced,      \* translate's total_replaced
    error_log,           \* PPTXTranslator.error_log
    result,              \* the result dictionary of generate_translated_pptx
    outputs,             \* documents written to output_path, one per run
    run,                 \* number of the current run (1 = first)
    stdout,              \* what main has printed: <<>> or one JSON object
    exit_status,         \* <<>> while main runs, then <<status of sys.exit>>
    texts,               \* the list extract_text_from_slide returned
    run_styles,          \* the list run_styles of replace_text_in_shape
    original_file_path,  \* "path" for a local path, "url" for an http(s) URL
    temp_file            \* the file download_if_url creates: "None" while there
                         \* is none, then "exists" or "deleted"

vars == <<source, edited_slides_data, presentation, text_replacements, pc,
          slide_idx, total_replaced, error_log, result, outputs, run,
          stdout, exit_status, texts, run_styles, original_file_path, temp_file>>

-----------------------------------------------------------------------------
(* Strings                                                                 *)

\* Code points for which Python's str.isspace() is true; str.strip() removes them.
Whitespace ==
    {9, 10, 11, 12, 13, 28, 29, 30, 31, 32, 133, 160, 5760} \cup (8192..8202)
        \cup {8232, 8233, 8239, 8287, 12288}

RECURSIVE lstrip(_)
lstrip(s) ==
    IF s = <<>> THEN s
    ELSE IF Head(s) \in Whitespace THEN lstrip(Tail(s)) ELSE s

RECURSIVE rstrip(_)
rstrip(s) ==
    IF s = <<>> THEN s
    ELSE IF s[Len(s)] \in Whitespace THEN rstrip(SubSeq(s, 1, Len(s) - 1)) ELSE s

\* str.strip(): leading and trailing whitespace removed
strip(s) == rstrip(lstrip(s))

\* Python's `needle in hay` on strings: contiguous substring
Contains(hay, needle) ==
    \E i \in 0..(Len(hay) - Len(needle)) :
        SubSeq(hay, i + 1, i + Len(needle)) = needle

\* "".join(parts)
RECURSIVE Concat(_)
Concat(parts) ==
    IF parts = <<>> THEN <<>> ELSE Head(parts) \o Concat(Tail(parts))

\* sep.join(parts) for a one-character separator
RECURSIVE Join(_, _)
Join(parts, sep) ==
    IF parts = <<>> THEN <<>>
    ELSE IF Len(parts) = 1 THEN Head(parts)
    ELSE Head(parts) \o <<sep>> \o Join(Tail(parts), sep)

\* text.split(sep) for a one-character separator
RECURSIVE Split(_, _)
Split(text, sep) ==
    IF \A i \in 1..Len(text) : text[i] # sep THEN <<text>>
    ELSE LET k == CHOOSE i \in 1..Len(text) :
                      text[i] = sep /\ \A j \in 1..(i - 1) : text[j] # sep
         IN  <<SubSeq(text, 1, k - 1)>> \o Split(SubSeq(text, k + 1, Len(text)), sep)


-----------------------------------------------------------------------------
(* Fonts and styles                                                        *)

\* JAPANESE_FONTS, in order of preference
JAPANESE_FONTS ==
    << <<28216, 12468, 12471, 12483, 12463>>,                   \* 游ゴシック
       <<89, 117, 32, 71, 111, 116, 104, 105, 99>>,             \* Yu Gothic
       <<12513, 12452, 12522, 12458>>,                          \* メイリオ
       <<77, 101, 105, 114, 121, 111>>,                         \* Meiryo
       <<65325, 65331, 32, 12468, 12471, 12483, 12463>>,        \* ＭＳ ゴシック
       <<77, 83, 32, 71, 111, 116, 104, 105, 99>>,              \* MS Gothic
       <<12498, 12521, 12462, 12494, 35282, 12468, 32, 80, 114, 111>>,
       <<72, 105, 114, 97, 103, 105, 110, 111, 32, 75, 97, 107, 117, 32,
         71, 111, 116, 104, 105, 99, 32, 80, 114, 111>>,        \* Hiragino Kaku Gothic Pro
       <<78, 111, 116, 111, 32, 83, 97, 110, 115, 32, 67, 74, 75, 32, 74, 80>>,
       <<28304, 12494, 35282, 12468, 12471, 12483, 12463>> >>   \* 源ノ角ゴシック

\* the code-point ranges is_japanese_text tests
HIRAGANA_FIRST == 12352
HIRAGANA_LAST == 12447
KATAKANA_FIRST == 12448
KATAKANA_LAST == 12543
CJK_FIRST == 19968
CJK_LAST == 40959
CJK_EXT_A_FIRST == 13312
CJK_EXT_A_LAST == 19903

\* PPTXTranslator.is_japanese_text
is_japanese_text(text) ==
    \E i \in 1..Len(text) :
        \/ HIRAGANA_FIRST <= text[i] /\ text[i] <= HIRAGANA_LAST
        \/ KATAKANA_FIRST <= text[i] /\ text[i] <= KATAKANA_LAST
        \/ CJK_FIRST <= text[i] /\ text[i] <= CJK_LAST
        \/ CJK_EXT_A_FIRST <= text[i] /\ text[i] <= CJK_EXT_A_LAST

\* pptx.util.Pt: points to the Length the library stores (EMU)
Pt(n) == n * 12700

\* run.font of a run that sets nothing itself
NoFont ==
    [name |-> <<>>, size |-> 0, bold |-> "None", italic |-> "None",
     underline |-> "None", color |-> <<>>]

\* TextStyle(): every attribute absent
EmptyTextStyle ==
    [font_name |-> <<>>, font_size |-> 0, bold |-> "None", italic |-> "None",
     underline |-> "None", color_rgb |-> <<>>]

\* an extractor that drops the weight and the colour
extract_text_style_lossy(r) ==
    [font_name |-> r.font.name, font_size |-> r.font.size, bold |-> "None",
     italic |-> r.font.italic, underline |-> r.font.underline, color_rgb |-> <<>>]

\* PPTXTranslator.extract_text_style: a fresh TextStyle, each attribute set
\* only when the run's font sets it
extract_text_style(r) ==
    LET style == EmptyTextStyle
    IN  [font_name |-> IF r.font.name # <<>> THEN r.font.name ELSE style.font_name,
         font_size |-> IF r.font.size # 0 THEN r.font.size ELSE style.font_size,
         bold      |-> IF r.font.bold # "None" THEN r.font.bold ELSE style.bold,
         italic    |-> IF r.font.italic # "None" THEN r.font.italic ELSE style.italic,
         underline |-> IF r.font.underline # "None" THEN r.font.underline
                       ELSE style.underline,
         color_rgb |-> IF r.font.color # <<>> THEN r.font.color ELSE style.color_rgb]

\* TextStyle.apply_to_run
apply_to_run(style, r, is_japanese) ==
    [r EXCEPT !.font =
        [name      |-> IF is_japanese
                       THEN IF /\ style.font_name # <<>>
                               /\ \E i \in 1..Len(JAPANESE_FONTS) :
                                      Contains(style.font_name, JAPANESE_FONTS[i])
                            THEN style.font_name
                            ELSE JAPANESE_FONTS[1]
                       ELSE IF style.font_name # <<>> THEN style.font_name
                       ELSE r.font.name,
         size      |-> IF style.font_size # 0 THEN style.font_size ELSE r.font.size,
         bold      |-> IF style.bold # "None" THEN style.bold ELSE r.font.bold,
         italic    |-> IF style.italic # "None" THEN style.italic ELSE r.font.italic,
         underline |-> IF style.underline # "None" THEN style.underline
                       ELSE r.font.underline,
         color     |-> IF style.color_rgb # <<>> THEN style.color_rgb
                       ELSE r.font.color]]

-----------------------------------------------------------------------------
(* Paragraphs, text frames, cells                                          *)
(* A paragraph is [runs, fld, pPr]: its runs, the text of its non-run      *)
(* content (a field such as a slide number), and its paragraph properties. *)

\* paragraph.add_run(): a run with no text and no font setting
NewRun == [text |-> <<>>, font |-> NoFont]

\* paragraph.text: the text of the paragraph's content, runs and fields
ParagraphText(p) == Concat([i \in 1..Len(p.runs) |-> p.runs[i].text]) \o p.fld

\* text_frame.text and cell.text: the paragraphs' texts joined by "\n"
FrameText(paragraphs) ==
    Join([i \in 1..Len(paragraphs) |-> ParagraphText(paragraphs[i])], 10)

\* paragraph.clear(): every run and field removed, the properties kept
ClearParagraph(p) == [p EXCEPT !.runs = <<>>, !.fld = <<>>]

\* paragraph.text = text, for a text without line breaks: one run holds it
SetParagraphText(p, text) ==
    [ClearParagraph(p) EXCEPT
        !.runs = IF text = <<>> THEN <<>> ELSE <<[NewRun EXCEPT !.text = text]>>]

\* text_frame.text = text: one fresh paragraph per line, one run each
SetFrameText(text) ==
    LET lines == Split(text, 10)
    IN  [i \in 1..Len(lines) |->
            [runs |-> IF lines[i] = <<>> THEN <<>>
                      ELSE <<[NewRun EXCEPT !.text = lines[i]]>>,
             fld |-> <<>>, pPr |-> "None"]]

\* ParagraphStyle of extract_paragraph_style, reduced to the properties record
extract_paragraph_style(p) == p.pPr

\* ParagraphStyle.apply_to_paragraph
apply_to_paragraph(para_style, p) ==
    IF para_style # "None" THEN [p EXCEPT !.pPr = para_style] ELSE p

-----------------------------------------------------------------------------
(* Shapes.  A shape is [kind, paragraphs, auto_size, rows, shapes, raises]: *)
(*   kind "text"    a shape with a text frame (has_text_frame),            *)
(*   kind "table"   a graphic frame holding a table (has_table), rows of   *)
(*                  cells, a cell being [paragraphs],                      *)
(*   kind "group"   a group shape (shape_type 6) with its child shapes,    *)
(*   kind "picture" a shape with neither text frame nor table.             *)
(* raises is "None" for a shape the library reads without error, "frame"   *)
(* for a shape whose content (shape.text_frame, shape.table, shape.shapes) *)
(* raises an exception when it is read, "style" for a text shape in which  *)
(* an assignment to the font of a run raises.                              *)

\* the messages of error_log and of the result
ERR_SHAPE == "Error replacing text in shape"
ERR_TABLE == "Error replacing text in table"
ERR_LOAD == "Failed to load presentation"
ERR_TRANSLATE == "Translation failed"
ERR_SAVE == "Failed to save presentation"
ERR_NOT_FOUND == "Original file not found"
ERR_MAIN == "Invalid JSON"
ERR_DOWNLOAD == "Failed to download file from URL"

\* a lookup key that also folds ASCII upper case to lower case
paragraph_key_casefold(p) ==
    LET t == strip(ParagraphText(p))
    IN  [i \in 1..Len(t) |-> IF 65 <= t[i] /\ t[i] <= 90 THEN t[i] + 32 ELSE t[i]]

\* original_text = paragraph.text.strip()
paragraph_key(p) == strip(ParagraphText(p))

\* cell_text = cell.text.strip()
cell_key(cell) == strip(FrameText(cell.paragraphs))

\* a replacement that keeps the old runs and appends the new one
ReplaceParagraphKeepRuns(p, new_text) ==
    IF p.runs # <<>>
    THEN [p EXCEPT !.runs = Append(@, [NewRun EXCEPT !.text = new_text,
                                                     !.font.size = Pt(11)])]
    ELSE SetParagraphText(p, new_text)

\* replace_text_in_shape, the body of `if original_text in self.text_replacements`
ReplaceParagraph(p, new_text) ==
    LET is_japanese == is_japanese_text(new_text)
        para_style == extract_paragraph_style(p)
        replaced ==
            IF p.runs # <<>>
            THEN LET first_run_style == extract_text_style(p.runs[1])
                     new_run == apply_to_run(first_run_style,
                                             [NewRun EXCEPT !.text = new_text],
                                             is_japanese)
                     sized == IF new_run.font.size = 0 /\ first_run_style.font_size = 0
                              THEN [new_run EXCEPT !.font.size = Pt(11)]
                              ELSE new_run
                 IN  [ClearParagraph(p) EXCEPT !.runs = <<sized>>]
            ELSE LET q == SetParagraphText(p, new_text)
                 IN  IF q.runs # <<>> /\ is_japanese
                     THEN [q EXCEPT !.runs[1].font.name = JAPANESE_FONTS[1]]
                     ELSE q
    IN  apply_to_paragraph(para_style, replaced)

\* the paragraph loop of replace_text_in_shape from paragraph i on: the first
\* paragraph whose key is in the map is replaced and the loop breaks
RECURSIVE ParagraphLoop(_, _, _)
ParagraphLoop(paragraphs, i, map) ==
    IF i > Len(paragraphs) THEN [paragraphs |-> paragraphs, count |-> 0]
    ELSE LET original_text == paragraph_key(paragraphs[i])
         IN  IF original_text \in DOMAIN map
             THEN [paragraphs |->
                       [paragraphs EXCEPT ![i] = ReplaceParagraph(@, map[original_text])],
                   count |-> 1]
             ELSE ParagraphLoop(paragraphs, i + 1, map)

\* the body of `if original_text in self.text_replacements` in a shape whose
\* font assignments raise: the new text is written (lines 358-360, 371), the
\* first assignment to the font of the new run raises.  With runs there is
\* always one (apply_to_run's, or the default size of line 367), without runs
\* only for a Japanese text (line 374)
ReplaceParagraphStyleRaises(p, new_text) ==
    IF p.runs # <<>> \/ is_japanese_text(new_text)
    THEN [paragraph |-> [ClearParagraph(p) EXCEPT
                            !.runs = <<[NewRun EXCEPT !.text = new_text]>>],
          count |-> 0, errors |-> <<ERR_SHAPE>>]
    ELSE [paragraph |-> ReplaceParagraph(p, new_text), count |-> 1, errors |-> <<>>]

\* what the paragraph loop leaves when the replacement of paragraph i is `hit`
\* (the exception, like the break, ends the loop)
LoopEndedAt(paragraphs, i, hit) ==
    [paragraphs |-> [paragraphs EXCEPT ![i] = hit.paragraph],
     count |-> hit.count, errors |-> hit.errors]

\* the paragraph loop of replace_text_in_shape from paragraph i on, in a shape
\* whose font assignments raise
RECURSIVE StyleRaisingLoop(_, _, _)
StyleRaisingLoop(paragraphs, i, map) ==
    IF i > Len(paragraphs)
    THEN [paragraphs |-> paragraphs, count |-> 0, errors |-> <<>>]
    ELSE IF paragraph_key(paragraphs[i]) \in DOMAIN map
    THEN LoopEndedAt(paragraphs, i,
             ReplaceParagraphStyleRaises(paragraphs[i],
                                         map[paragraph_key(paragraphs[i])]))
    ELSE StyleRaisingLoop(paragraphs, i + 1, map)

\* replace_text_in_shape once that loop is over or was left by the exception
ShapeAfterRaisingLoop(shape, loop) ==
    [shape |-> [shape EXCEPT !.auto_size = "NONE", !.paragraphs = loop.paragraphs],
     count |-> loop.count, errors |-> loop.errors]

\* replace_text_in_shape once its paragraph loop is over: auto_size was set to
\* NONE before the loop
ShapeAfterLoop(shape, loop) ==
    [shape |-> [shape EXCEPT !.auto_size = "NONE", !.paragraphs = loop.paragraphs],
     count |-> loop.count, errors |-> <<>>]

\* PPTXTranslator.replace_text_in_shape: the shape it leaves, the count it
\* returns and the messages it appends to error_log
replace_text_in_shape(shape, map) ==
    IF shape.kind # "text" THEN [shape |-> shape, count |-> 0, errors |-> <<>>]
    ELSE IF shape.raises = "frame"
    THEN [shape |-> shape, count |-> 0, errors |-> <<ERR_SHAPE>>]
    ELSE IF shape.raises = "style"
    THEN ShapeAfterRaisingLoop(shape, StyleRaisingLoop(shape.paragraphs, 1, map))
    ELSE ShapeAfterLoop(shape, ParagraphLoop(shape.paragraphs, 1, map))

\* a cell replacement that clears the later paragraphs but leaves them in place
ReplaceCellKeepParagraphs(cell, new_text) ==
    [cell EXCEPT !.paragraphs =
        [i \in 1..Len(cell.paragraphs) |->
            IF i = 1
            THEN [ClearParagraph(cell.paragraphs[1]) EXCEPT
                     !.runs = <<[NewRun EXCEPT !.text = new_text,
                                               !.font.size = Pt(11)]>>]
            ELSE ClearParagraph(cell.paragraphs[i])]]

\* replace_text_in_table, the body of `if cell_text in self.text_replacements`
ReplaceCell(cell, new_text) ==
    LET is_japanese == is_japanese_text(new_text)
        first_para == cell.paragraphs[1]
        has_style == first_para.runs # <<>>
        new_run == [NewRun EXCEPT !.text = new_text]
        styled == IF has_style
                  THEN apply_to_run(extract_text_style(first_para.runs[1]),
                                    new_run, is_japanese)
                  ELSE IF is_japanese
                       THEN [new_run EXCEPT !.font.name = JAPANESE_FONTS[1]]
                       ELSE new_run
        sized == IF styled.font.size = 0
                 THEN [styled EXCEPT !.font.size = Pt(11)]
                 ELSE styled
    IN  [cell EXCEPT !.paragraphs =
            <<[ClearParagraph(first_para) EXCEPT !.runs = <<sized>>]>>]

\* the cell of replace_text_in_table's loop after the loop body
ProcessCell(cell, map) ==
    IF cell_key(cell) \in DOMAIN map THEN ReplaceCell(cell, map[cell_key(cell)])
    ELSE cell

\* the sequences of a sequence of sequences, one after the other
RECURSIVE Flatten(_)
Flatten(seqs) == IF seqs = <<>> THEN <<>> ELSE Head(seqs) \o Flatten(Tail(seqs))

\* sum of a sequence of numbers
RECURSIVE Sum(_)
Sum(ns) == IF ns = <<>> THEN 0 ELSE Head(ns) + Sum(Tail(ns))

\* a table walk that counts every cell it visits
replace_text_in_table_count_visits(shape, map) ==
    IF shape.kind # "table" THEN [shape |-> shape, count |-> 0, errors |-> <<>>]
    ELSE IF shape.raises = "frame"
    THEN [shape |-> shape, count |-> 0, errors |-> <<ERR_TABLE>>]
    ELSE [shape |->
            [shape EXCEPT !.rows =
                [r \in 1..Len(shape.rows) |->
                    [c \in 1..Len(shape.rows[r]) |-> ProcessCell(shape.rows[r][c], map)]]],
          count |-> Sum([r \in 1..Len(shape.rows) |-> Len(shape.rows[r])]),
          errors |-> <<>>]

\* PPTXTranslator.replace_text_in_table
replace_text_in_table(shape, map) ==
    IF shape.kind # "table" THEN [shape |-> shape, count |-> 0, errors |-> <<>>]
    ELSE IF shape.raises = "frame"
    THEN [shape |-> shape, count |-> 0, errors |-> <<ERR_TABLE>>]
    ELSE [shape |->
            [shape EXCEPT !.rows =
                [r \in 1..Len(shape.rows) |->
                    [c \in 1..Len(shape.rows[r]) |-> ProcessCell(shape.rows[r][c], map)]]],
          count |->
            Sum([r \in 1..Len(shape.rows) |->
                    Cardinality({c \in 1..Len(shape.rows[r]) :
                                    cell_key(shape.rows[r][c]) \in DOMAIN map})]),
          errors |-> <<>>]

\* `replaced_count += ...` of process_slide: the step `next`, made on the
\* shape the steps `done` left
Then(done, next) ==
    [shape |-> next.shape, count |-> done.count + next.count,
     errors |-> done.errors \o next.errors]

\* process_slide, the table step for a shape the text step is done with
TableStep(done, map) == Then(done, replace_text_in_table(done.shape, map))

\* the loop `for sub_shape in shape.shapes`, given what replace_text_in_shape
\* made of each child
ChildrenLoop(shape, subs) ==
    [shape |-> [shape EXCEPT !.shapes = [i \in 1..Len(subs) |-> subs[i].shape]],
     count |-> Sum([i \in 1..Len(subs) |-> subs[i].count]),
     errors |-> Flatten([i \in 1..Len(subs) |-> subs[i].errors])]

\* process_slide, the group step: one loop over the children of a group; a
\* group whose children cannot be read is passed over without a message
\* (`except: pass`)
GroupStep(done, map) ==
    IF done.shape.kind = "group" /\ done.shape.raises # "frame"
    THEN Then(done,
              ChildrenLoop(done.shape,
                           [i \in 1..Len(done.shape.shapes) |->
                               replace_text_in_shape(done.shape.shapes[i], map)]))
    ELSE done

\* the body of process_slide's loop for one shape
ProcessShape(shape, map) ==
    GroupStep(TableStep(replace_text_in_shape(shape, map), map), map)

\* a notes replacement that is not counted
replace_notes_uncounted(notes, map) ==
    LET notes_text == strip(FrameText(notes.paragraphs))
    IN  IF notes.has_notes_slide /\ notes_text \in DOMAIN map
        THEN [notes |-> [notes EXCEPT !.paragraphs = SetFrameText(map[notes_text])],
              count |-> 0]
        ELSE [notes |-> notes, count |-> 0]

\* translate, the body of the notes loop for the notes of one slide
replace_notes(notes, map) ==
    LET notes_text == strip(FrameText(notes.paragraphs))
    IN  IF notes.has_notes_slide /\ notes_text \in DOMAIN map
        THEN [notes |-> [notes EXCEPT !.paragraphs = SetFrameText(map[notes_text])],
              count |-> 1]
        ELSE [notes |-> notes, count |-> 0]

\* the loop `for shape_idx, shape in enumerate(slide.shapes)`, given what the
\* loop body made of each shape
ShapesLoop(slide, done) ==
    [slide |-> [slide EXCEPT !.shapes = [i \in 1..Len(done) |-> done[i].shape]],
     count |-> Sum([i \in 1..Len(done) |-> done[i].count]),
     errors |-> Flatten([i \in 1..Len(done) |-> done[i].errors])]

\* PPTXTranslator.process_slide
process_slide(slide, map) ==
    ShapesLoop(slide, [i \in 1..Len(slide.shapes) |-> ProcessShape(slide.shapes[i], map)])

-----------------------------------------------------------------------------
(* The replacement map                                                     *)

EmptyMap == [k \in {} |-> <<>>]

\* a filter that lets a no-op pair through
keep_record_noop(original, translated) ==
    original # <<>> /\ translated # <<>>

\* if original and translated and original != translated
keep_record(original, translated) ==
    original # <<>> /\ translated # <<>> /\ original # translated

\* a binding that keeps the first translation of a key
bind_first_wins(map, original, translated) ==
    IF original \in DOMAIN map THEN map
    ELSE [k \in DOMAIN map \cup {original} |->
             IF k = original THEN translated ELSE map[k]]

\* self.text_replacements[original] = translated
bind(map, original, translated) ==
    [k \in DOMAIN map \cup {original} |->
        IF k = original THEN translated ELSE map[k]]

\* the records of the payload in the order the two loops visit them
RECURSIVE AllRecords(_)
AllRecords(data) ==
    IF data = <<>> THEN <<>> ELSE Head(data).texts \o AllRecords(Tail(data))

RECURSIVE AddRecords(_, _)
AddRecords(map, records) ==
    IF records = <<>> THEN map
    ELSE LET original == strip(Head(records).original)
             translated == strip(Head(records).translated)
         IN  AddRecords(IF keep_record(original, translated)
                        THEN bind(map, original, translated)
                        ELSE map,
                        Tail(records))

\* PPTXTranslator.prepare_text_replacements: the map it leaves in text_replacements
prepare_text_replacements(data) == AddRecords(EmptyMap, AllRecords(data))

-----------------------------------------------------------------------------
(* Documents and payloads the runs start from                              *)

\* non-empty sequences over S of length at most n
SeqsUpTo(S, n) == UNION {[1..k -> S] : k \in 1..n}

\* sequences over S of length at most n, the empty one included
SeqsFrom0(S, n) == UNION {[1..k -> S] : k \in 0..n}

PlainRun(text) == [text |-> text, font |-> NoFont]
PlainParagraph(text) == [runs |-> <<PlainRun(text)>>, fld |-> <<>>, pPr |-> "None"]
TextShape(paragraphs, auto_size) ==
    [kind |-> "text", paragraphs |-> paragraphs, auto_size |-> auto_size,
     rows |-> <<>>, shapes |-> <<>>, raises |-> "None"]
TableShape(rows) ==
    [kind |-> "table", paragraphs |-> <<>>, auto_size |-> "None",
     rows |-> rows, shapes |-> <<>>, raises |-> "None"]
GroupShape(shapes) ==
    [kind |-> "group", paragraphs |-> <<>>, auto_size |-> "None",
     rows |-> <<>>, shapes |-> shapes, raises |-> "None"]
Picture ==
    [kind |-> "picture", paragraphs |-> <<>>, auto_size |-> "None",
     rows |-> <<>>, shapes |-> <<>>, raises |-> "None"]
\* a shape whose content raises when it is read
Raising(shape) == [shape EXCEPT !.raises = "frame"]
Cell(paragraphs) == [paragraphs |-> paragraphs]
NoNotes == [has_notes_slide |-> FALSE, paragraphs |-> <<>>]
Notes(paragraphs) == [has_notes_slide |-> TRUE, paragraphs |-> paragraphs]
Slide(shapes, notes) == [shapes |-> shapes, notes |-> notes]
Record(original, translated) == [original |-> original, translated |-> translated]
SlideData(pageNumber, records) == [pageNumber |-> pageNumber, texts |-> records]

\* bounds
MaxParagraphs == 2   \* paragraphs of a text shape (walk)
MaxShapes == 2       \* shapes of the first slide (walk)
MaxRecords == 1      \* records of one slide_data (walk)
MaxMapRecords == 2   \* records of the payload (map)
MaxRuns == 3         \* runs of the paragraph (style)
MaxPasses == 2       \* runs of generate_translated_pptx in a row

(* The walk: documents rich in structure over the texts "A" and "B".      *)

WalkTexts == {<<65>>, <<66>>}

WalkTextShapes ==
    {TextShape(ps, "SHAPE_TO_FIT_TEXT") :
        ps \in SeqsUpTo({PlainParagraph(t) : t \in WalkTexts}, MaxParagraphs)}

WalkTables ==
    {TableShape(<<cs>>) :
        cs \in [1..2 -> {Cell(<<PlainParagraph(t)>>) : t \in WalkTexts}]}

WalkGroups ==
    {GroupShape(<<TextShape(<<PlainParagraph(<<65>>)>>, "None")>>),
     GroupShape(<<GroupShape(<<TextShape(<<PlainParagraph(<<65>>)>>, "None")>>)>>),
     GroupShape(<<TableShape(<<
         <<Cell(<<PlainParagraph(<<65>>)>>)>> >>)>>)}

\* shapes with the text "A" that raise: a text shape, a table, a group
WalkRaisingShapes ==
    {Raising(TextShape(<<PlainParagraph(<<65>>)>>, "None")),
     Raising(TableShape(<< <<Cell(<<PlainParagraph(<<65>>)>>)>> >>)),
     Raising(GroupShape(<<TextShape(<<PlainParagraph(<<65>>)>>, "None")>>))}

WalkShapes ==
    WalkTextShapes \cup WalkTables \cup WalkGroups \cup {Picture}
        \cup WalkRaisingShapes

\* the shapes that follow the first shape of the first slide
WalkTrailingShapes ==
    {TextShape(<<PlainParagraph(t)>>, "None") : t \in WalkTexts}

WalkFirstSlides ==
    {Slide(<<first>> \o rest, notes) :
        first \in WalkShapes,
        rest \in SeqsFrom0(WalkTrailingShapes, MaxShapes - 1),
        notes \in {NoNotes, Notes(<<PlainParagraph(<<65>>)>>)}}

WalkSecondSlides ==
    {Slide(<<TextShape(<<PlainParagraph(t)>>, "None")>>, NoNotes) : t \in WalkTexts}

WalkDocuments == {<<s1, s2>> : s1 \in WalkFirstSlides, s2 \in WalkSecondSlides}

\* records "A"->"B", "B"->"A"
WalkRecords == {Record(<<65>>, <<66>>), Record(<<66>>, <<65>>)}

\* one slide_data per slide, the records of slide k under pageNumber k
WalkPayloads ==
    {<<SlideData(1, t1), SlideData(2, t2)>> :
        t1 \in SeqsFrom0(WalkRecords, MaxRecords),
        t2 \in SeqsFrom0(WalkRecords, MaxRecords)}

(* The map: payloads rich in texts over a one-slide document.  The texts   *)
(* are "", " ", "H", " H", "h", "HH", "h " and the Hiragana letter A.      *)

MapOriginals == {<<>>, <<32>>, <<72>>, <<32, 72>>, <<104>>, <<72, 72>>}
MapTranslations == {<<>>, <<104, 32>>, <<12354>>}
MapRecords == {Record(o, t) : o \in MapOriginals, t \in MapTranslations}

\* the records in one slide_data, or the last record in a slide_data of its own
MapPayloads ==
    {<<SlideData(1, recs)>> : recs \in SeqsFrom0(MapRecords, MaxMapRecords)}
        \cup {<<SlideData(1, SubSeq(recs, 1, Len(recs) - 1)),
                SlideData(2, <<recs[Len(recs)]>>)>> :
                recs \in SeqsUpTo(MapRecords, MaxMapRecords)}

\* the paragraph and the notes hold " H ", "h" or "HH", the cell " H " or "h"
MapDocTexts == {<<32, 72, 32>>, <<104>>, <<72, 72>>}

MapDocuments ==
    {<<Slide(<<TextShape(<<PlainParagraph(t)>>, "None"),
               TableShape(<< <<Cell(<<PlainParagraph(u)>>)>> >>)>>,
             Notes(<<PlainParagraph(t)>>))>> :
        t \in MapDocTexts, u \in {<<32, 72, 32>>, <<104>>}}

(* The style: one paragraph rich in runs and fonts, in a text shape or in  *)
(* a table cell, and one record that translates it.                        *)

Arial == <<65, 114, 105, 97, 108>>
MeiryoUI == <<77, 101, 105, 114, 121, 111, 32, 85, 73>>

StyleFonts ==
    [name : {<<>>, Arial, JAPANESE_FONTS[4], MeiryoUI},
     size : {0, Pt(18)},
     bold : {"None", "True", "False"},
     italic : {"None", "True"},
     underline : {"None", "True"},
     color : {<<>>, <<255, 0, 0>>, <<0, 0, 0>>}]

\* the fonts of the runs after the first
StyleOtherFonts ==
    {NoFont,
     [name |-> Arial, size |-> Pt(24), bold |-> "True", italic |-> "None",
      underline |-> "None", color |-> <<0, 0, 255>>]}

\* the text of run i: "H", " ", "W", " ", ...
StyleRunText(i) == IF i = 1 THEN <<72>> ELSE IF i % 2 = 0 THEN <<32>> ELSE <<87>>

StyleParagraphs ==
    {[runs |-> <<>>, fld |-> <<72, 32, 87>>, pPr |-> "ctr"]}
        \cup UNION {
            {[runs |-> [i \in 1..n |->
                          [text |-> StyleRunText(i),
                           font |-> IF i = 1 THEN first ELSE others[i]]],
              fld |-> <<>>, pPr |-> "ctr"] :
                first \in StyleFonts, others \in [1..n -> StyleOtherFonts]} :
            n \in 1..MaxRuns}

\* cells of several paragraphs: "H" as a run or as a field, then "W" or
\* empty paragraphs
StyleLongCells ==
    {Cell(<<p>> \o rest) :
        p \in {PlainParagraph(<<72>>), [runs |-> <<>>, fld |-> <<72>>, pPr |-> "ctr"]},
        rest \in SeqsUpTo({PlainParagraph(<<87>>),
                           [runs |-> <<>>, fld |-> <<>>, pPr |-> "None"]},
                          MaxParagraphs - 1)}

StyleDocuments ==
    {<<Slide(<<TextShape(<<p>>, "None")>>, NoNotes)>> : p \in StyleParagraphs}
        \cup {<<Slide(<<TableShape(<< <<Cell(<<p>>)>> >>)>>, NoNotes)>> :
                 p \in StyleParagraphs}
        \cup {<<Slide(<<TableShape(<< <<cell>> >>)>>, NoNotes)>> :
                 cell \in StyleLongCells}

\* "X", Hiragana A, Katakana A, "X" + the ideograph one + "X"
StyleTranslations == {<<88>>, <<12354>>, <<12450>>, <<88, 19968, 88>>}

\* the text of the first text unit of a one-slide, one-shape document
FirstUnitText(doc) ==
    LET shape == doc[1].shapes[1]
    IN  IF shape.kind = "text" THEN ParagraphText(shape.paragraphs[1])
        ELSE FrameText(shape.rows[1][1].paragraphs)

-----------------------------------------------------------------------------
(* generate_translated_pptx as a state machine                             *)

\* the result dictionary generate_translated_pptx starts from
InitResult ==
    [success |-> FALSE, output |-> "None", replacements |-> 0,
     errors |-> <<>>, warnings |-> <<>>]

\* the state at the entry of a run on `doc`, named by a local path or by a
\* URL, with `payload`
StartFrom(doc, payload, path) ==
    /\ source = doc
    /\ edited_slides_data = payload
    /\ presentation = <<>>
    /\ text_replacements = EmptyMap
    /\ pc = "start"
    /\ slide_idx = 1
    /\ total_replaced = 0
    /\ error_log = <<>>
    /\ result = InitResult
    /\ outputs = <<>>
    /\ run = 1
    /\ stdout = <<>>
    /\ exit_status = <<>>
    /\ texts = <<>>
    /\ run_styles = <<>>
    /\ original_file_path = path
    /\ temp_file = "None"

\* the state at the entry of a run on `doc`, a local file, with `payload`
Start(doc, payload) == StartFrom(doc, payload, "path")

Init == \E doc \in WalkDocuments, payload \in WalkPayloads : Start(doc, payload)

\* main: print(json.dumps(result)); sys.exit(0 if result["success"] else 1)
PrintAndExit(res) ==
    /\ stdout' = <<res>>
    /\ exit_status' = <<IF res.success THEN 0 ELSE 1>>

\* main: the translations file cannot be opened or is not JSON; the handlers
\* of main print an error object and exit with 1
ReadTranslationsFails ==
    /\ pc = "start"
    /\ stdout' = <<[success |-> FALSE, error |-> ERR_MAIN]>>
    /\ exit_status' = <<1>>
    /\ pc' = "exited"
    /\ UNCHANGED <<source, edited_slides_data, presentation, text_replacements,
                   slide_idx, total_replaced, error_log, result, outputs, run>>
    /\ UNCHANGED <<texts, run_styles, original_file_path, temp_file>>

\* generate_translated_pptx: original_file_path is not a URL and does not exist
SourceNotFound ==
    /\ pc = "start"
    /\ original_file_path = "path"
    /\ result' = [result EXCEPT !.errors = Append(@, ERR_NOT_FOUND)]
    /\ PrintAndExit(result')
    /\ pc' = "failed"
    /\ UNCHANGED <<source, edited_slides_data, presentation, text_replacements,
                   slide_idx, total_replaced, error_log, outputs, run>>
    /\ UNCHANGED <<texts, run_styles, original_file_path, temp_file>>

\* PPTXTranslator.load_presentation returns True
LoadPresentation ==
    /\ pc = "start"
    /\ presentation' = source
    /\ pc' = "loaded"
    /\ UNCHANGED <<source, edited_slides_data, text_replacements, slide_idx,
                   total_replaced, error_log, result, outputs, run, stdout,
                   exit_status>>
    /\ temp_file' = IF original_file_path = "url" THEN "exists" ELSE temp_file
    /\ UNCHANGED <<texts, run_styles, original_file_path>>

\* PPTXTranslator.cleanup_temp_file: what the file can be afterwards; os.unlink
\* may raise, and the exception is passed over
cleanup_temp_file(file) == IF file = "exists" THEN {"deleted", "exists"} ELSE {file}

\* a load failure that leaves no message
load_error_log_silent(log) == log

\* the error_log after load_presentation caught an exception
load_error_log(log) == Append(log, ERR_LOAD)

\* PPTXTranslator.load_presentation returns False (download or Presentation()
\* raised): generate_translated_pptx returns the log as errors
LoadFails ==
    /\ pc = "start"
    /\ \/ /\ error_log' = load_error_log(error_log)
          /\ temp_file' = IF original_file_path = "url" THEN "exists" ELSE temp_file
       \/ /\ original_file_path = "url"
          /\ error_log' = load_error_log(Append(error_log, ERR_DOWNLOAD))
          /\ temp_file' \in {"None", "exists"}
    /\ result' = [result EXCEPT !.errors = error_log']
    /\ PrintAndExit(result')
    /\ pc' = "failed"
    /\ UNCHANGED <<source, edited_slides_data, presentation, text_replacements,
                   slide_idx, total_replaced, outputs, run>>
    /\ UNCHANGED <<texts, run_styles, original_file_path>>

\* translate: the map is prepared; with an empty map translate returns (True, 0)
PrepareTextReplacements ==
    /\ pc = "loaded"
    /\ text_replacements' = prepare_text_replacements(edited_slides_data)
    /\ pc' = IF Cardinality(DOMAIN text_replacements') = 0
             THEN "translated" ELSE "slides"
    /\ slide_idx' = 1
    /\ total_replaced' = 0
    /\ UNCHANGED <<source, edited_slides_data, presentation, error_log, result,
                   outputs, run, stdout, exit_status>>
    /\ UNCHANGED <<texts, run_styles, original_file_path, temp_file>>

\* a result that forgets the count of translate
ResultAfterTranslateNoCount(res, success, replacements, log) ==
    IF success THEN res ELSE [res EXCEPT !.errors = log]

\* the result after translate returned (success, replacements)
ResultAfterTranslate(res, success, replacements, log) ==
    IF success THEN [res EXCEPT !.replacements = replacements]
    ELSE [res EXCEPT !.replacements = replacements, !.errors = log]

\* translate: prepare_text_replacements raises on a payload it cannot read (an
\* entry that is no object, a text that is no string); translate catches it
\* and returns (False, 0), generate_translated_pptx returns the log as errors
PrepareFails ==
    /\ pc = "loaded"
    /\ error_log' = Append(error_log, ERR_TRANSLATE)
    /\ result' = ResultAfterTranslate(result, FALSE, 0, error_log')
    /\ PrintAndExit(result')
    /\ pc' = "failed"
    /\ UNCHANGED <<source, edited_slides_data, presentation, text_replacements,
                   slide_idx, total_replaced, outputs, run>>
    /\ UNCHANGED <<texts, run_styles, original_file_path, temp_file>>

\* translate: one turn of the loop `for slide_idx, slide in enumerate(slides)`
ProcessSlide ==
    /\ pc = "slides"
    /\ slide_idx <= Len(presentation)
    /\ \E done \in {process_slide(presentation[slide_idx], text_replacements)} :
           /\ presentation' = [presentation EXCEPT ![slide_idx] = done.slide]
           /\ total_replaced' = total_replaced + done.count
           /\ error_log' = error_log \o done.errors
    /\ IF slide_idx = Len(presentation)
       THEN pc' = "notes" /\ slide_idx' = 1
       ELSE pc' = "slides" /\ slide_idx' = slide_idx + 1
    /\ UNCHANGED <<source, edited_slides_data, text_replacements, result, outputs,
                   run, stdout, exit_status>>
    /\ UNCHANGED <<texts, run_styles, original_file_path, temp_file>>

\* translate: one turn of the notes loop
ProcessNotes ==
    /\ pc = "notes"
    /\ slide_idx <= Len(presentation)
    /\ \E done \in {replace_notes(presentation[slide_idx].notes, text_replacements)} :
           /\ presentation' = [presentation EXCEPT ![slide_idx].notes = done.notes]
           /\ total_replaced' = total_replaced + done.count
    /\ IF slide_idx = Len(presentation)
       THEN pc' = "translated" /\ slide_idx' = 1
       ELSE pc' = "notes" /\ slide_idx' = slide_idx + 1
    /\ UNCHANGED <<source, edited_slides_data, text_replacements, error_log,
                   result, outputs, run, stdout, exit_status>>
    /\ UNCHANGED <<texts, run_styles, original_file_path, temp_file>>

\* a result that takes the log as its errors whether or not the save succeeded
ResultAfterSaveErrorsAlways(res, saved, log) ==
    [success |-> saved,
     output |-> IF saved THEN "output_path" ELSE res.output,
     replacements |-> res.replacements,
     errors |-> log,
     warnings |-> IF log # <<>> THEN log ELSE res.warnings]

\* a result that names the output path whether or not the save succeeded
ResultAfterSaveAlwaysPath(res, saved, log) ==
    [success |-> saved,
     output |-> "output_path",
     replacements |-> res.replacements,
     errors |-> IF saved THEN res.errors ELSE log,
     warnings |-> IF log # <<>> THEN log ELSE res.warnings]

\* the result generate_translated_pptx returns after translator.save
ResultAfterSave(res, saved, log) ==
    [success |-> saved,
     output |-> IF saved THEN "output_path" ELSE res.output,
     replacements |-> res.replacements,
     errors |-> IF saved THEN res.errors ELSE log,
     warnings |-> IF log # <<>> THEN log ELSE res.warnings]

\* generate_translated_pptx after translate returned (True, n): save writes the
\* document, and the result is returned
SaveAndReturn ==
    /\ pc = "translated"
    /\ outputs' = Append(outputs, presentation)
    /\ result' = ResultAfterSave(
                     ResultAfterTranslate(result, TRUE, total_replaced, error_log),
                     TRUE, error_log)
    /\ PrintAndExit(result')
    /\ pc' = "done"
    /\ UNCHANGED <<source, edited_slides_data, presentation, text_replacements,
                   slide_idx, total_replaced, error_log, run>>
    /\ temp_file' \in cleanup_temp_file(temp_file)
    /\ UNCHANGED <<texts, run_styles, original_file_path>>

\* generate_translated_pptx after translate returned (True, n): save catches an
\* exception (makedirs or Presentation.save raised) and returns False
SaveFails ==
    /\ pc = "translated"
    /\ error_log' = Append(error_log, ERR_SAVE)
    /\ result' = ResultAfterSave(
                     ResultAfterTranslate(result, TRUE, total_replaced, error_log),
                     FALSE, error_log')
    /\ PrintAndExit(result')
    /\ pc' = "failed"
    /\ UNCHANGED <<source, edited_slides_data, presentation, text_replacements,
                   slide_idx, total_replaced, outputs, run>>
    /\ UNCHANGED <<texts, run_styles, original_file_path, temp_file>>

\* generate_translated_pptx called again, on the file the last run wrote,
\* with the same payload
RunAgain ==
    /\ pc = "done"
    /\ result.success
    /\ run < MaxPasses
    /\ source' = outputs[Len(outputs)]
    /\ presentation' = <<>>
    /\ text_replacements' = EmptyMap
    /\ pc' = "start"
    /\ slide_idx' = 1
    /\ total_replaced' = 0
    /\ error_log' = <<>>
    /\ result' = InitResult
    /\ run' = run + 1
    /\ stdout' = <<>>
    /\ exit_status' = <<>>
    /\ UNCHANGED <<edited_slides_data, outputs>>
    /\ original_file_path' = "path"
    /\ temp_file' = "None"
    /\ UNCHANGED <<texts, run_styles>>

Next ==
    \/ ReadTranslationsFails
    \/ SourceNotFound
    \/ LoadPresentation
    \/ LoadFails
    \/ PrepareTextReplacements
    \/ PrepareFails
    \/ ProcessSlide
    \/ ProcessNotes
    \/ SaveAndReturn
    \/ SaveFails
    \/ RunAgain

Spec == Init /\ [][Next]_vars

\* runs on documents whose first shape is a text shape, sound or with font
\* assignments that raise, or a table
RaiseFirstShapes ==
    WalkTextShapes \cup WalkTables
        \cup {[shape EXCEPT !.raises = "style"] : shape \in WalkTextShapes}
RaiseDocuments ==
    {<<Slide(<<first>> \o rest, notes), s2>> :
        first \in RaiseFirstShapes,
        rest \in SeqsFrom0(WalkTrailingShapes, MaxShapes - 1),
        notes \in {NoNotes, Notes(<<PlainParagraph(<<65>>)>>)},
        s2 \in WalkSecondSlides}
InitRaise == \E doc \in RaiseDocuments, payload \in WalkPayloads : Start(doc, payload)
SpecRaise == InitRaise /\ [][Next]_vars

\* runs on a document named by a local path or by a URL
InitTemp ==
    \E doc \in WalkDocuments, payload \in WalkPayloads, path \in {"path", "url"} :
        StartFrom(doc, payload, path)
SpecTemp == InitTemp /\ [][Next]_vars

\* runs over the payloads of the map
InitMap == \E doc \in MapDocuments, payload \in MapPayloads : Start(doc, payload)
SpecMap == InitMap /\ [][Next]_vars

\* runs over the paragraphs of the style
InitStyle ==
    \E doc \in StyleDocuments, t \in StyleTranslations :
        Start(doc, <<SlideData(1, <<Record(FirstUnitText(doc), t)>>)>>)
SpecStyle == InitStyle /\ [][Next]_vars

-----------------------------------------------------------------------------
(* scripts/process_pptx.py: PPTXProcessor.extract_text_from_slide.  A shape *)
(* of the slide it reads has, beside the fields above, its place on the    *)
(* slide: left, top, width, height, in points.  Points are whole numbers   *)
(* here, and the tables of the documents have a width and a height that    *)
(* their column and row counts divide, so that every position is whole.    *)

\* a shape with its place on the slide
Placed(shape, left, top, width, height) ==
    [f \in DOMAIN shape \cup {"left", "top", "width", "height"} |->
        IF f = "left" THEN left
        ELSE IF f = "top" THEN top
        ELSE IF f = "width" THEN width
        ELSE IF f = "height" THEN height
        ELSE shape[f]]

\* row_threshold = 20
row_threshold == 20

\* Python's round(n / d) for whole n and d > 0: the nearest whole number, a
\* tie going to the even one
round(n, d) ==
    LET q == n \div d
        r == n % d
    IN  IF 2 * r < d THEN q
        ELSE IF 2 * r > d THEN q + 1
        ELSE IF q % 2 = 0 THEN q ELSE q + 1

\* a sort key that puts the horizontal position first
sort_key_x_first(t) == <<t.position.x, round(t.position.y, row_threshold) * row_threshold>>

\* the key of texts.sort: (round(y / row_threshold) * row_threshold, x)
sort_key(t) == <<round(t.position.y, row_threshold) * row_threshold, t.position.x>>

\* the order of Python on pairs of numbers
TupleLess(a, b) == a[1] < b[1] \/ (a[1] = b[1] /\ a[2] < b[2])

\* list.sort is stable: t goes behind every element whose key is not greater
RECURSIVE InsertByKey(_, _)
InsertByKey(sorted, t) ==
    IF sorted = <<>> THEN <<t>>
    ELSE IF TupleLess(sort_key(t), sort_key(Head(sorted))) THEN <<t>> \o sorted
    ELSE <<Head(sorted)>> \o InsertByKey(Tail(sorted), t)

\* texts.sort(key=...) on the first n elements of the list
RECURSIVE SortPrefix(_, _)
SortPrefix(list, n) ==
    IF n = 0 THEN <<>> ELSE InsertByKey(SortPrefix(list, n - 1), list[n])

\* texts.sort(key=...)
list_sort(list) == SortPrefix(list, Len(list))

\* the units of the paragraphs of a text shape: the paragraphs with text,
\* each at the place of the shape
ParagraphUnits(shape) ==
    LET position == [x |-> shape.left, y |-> shape.top,
                     width |-> shape.width, height |-> shape.height]
    IN  [i \in 1..Len(shape.paragraphs) |->
            IF paragraph_key(shape.paragraphs[i]) = <<>> THEN <<>>
            ELSE <<[original |-> paragraph_key(shape.paragraphs[i]),
                    translated |-> <<>>, position |-> position, type |-> "text"]>>]

\* the units of one row of a table: the cells with text, each at the place
\* its row and column give it
RowUnits(shape, r, cell_width, cell_height) ==
    [c \in 1..Len(shape.rows[r]) |->
        IF cell_key(shape.rows[r][c]) = <<>> THEN <<>>
        ELSE <<[original |-> cell_key(shape.rows[r][c]),
                translated |-> <<>>,
                position |-> [x |-> shape.left + (c - 1) * cell_width,
                              y |-> shape.top + (r - 1) * cell_height,
                              width |-> cell_width, height |-> cell_height],
                type |-> "table_cell"]>>]

\* the units of a table
TableUnits(shape, cell_width, cell_height) ==
    Flatten([r \in 1..Len(shape.rows) |->
                Flatten(RowUnits(shape, r, cell_width, cell_height))])

\* the units of one shape: a table first, else a text frame
ShapeUnits(shape) ==
    IF shape.kind = "table"
    THEN TableUnits(shape,
                    IF shape.width # 0 /\ Len(shape.rows[1]) > 0
                    THEN shape.width \div Len(shape.rows[1]) ELSE 100,
                    IF shape.height # 0 /\ Len(shape.rows) > 0
                    THEN shape.height \div Len(shape.rows) ELSE 30)
    ELSE IF shape.kind = "text" THEN Flatten(ParagraphUnits(shape))
    ELSE <<>>

\* the loop over slide.shapes from shape i on; a shape that raises ends the
\* loop (the except clause around it), the units found so far stay
RECURSIVE ExtractFrom(_, _)
ExtractFrom(shapes, i) ==
    IF i > Len(shapes) THEN <<>>
    ELSE IF shapes[i].raises = "frame" /\ shapes[i].kind \in {"text", "table"}
    THEN <<>>
    ELSE ShapeUnits(shapes[i]) \o ExtractFrom(shapes, i + 1)

\* the units with their ids; an id is unique (it ends in a fresh uuid), here
\* the number of the unit in the order of extraction
WithIds(units) ==
    [i \in 1..Len(units) |->
        [id |-> i, original |-> units[i].original, translated |-> units[i].translated,
         position |-> units[i].position, type |-> units[i].type]]

\* the list `texts` before it is sorted
extracted_texts(slide) == WithIds(ExtractFrom(slide.shapes, 1))

\* PPTXProcessor.extract_text_from_slide
extract_text_from_slide(slide) == list_sort(extracted_texts(slide))

\* bound
MaxSortShapes == 3   \* shapes of the slide (extraction)

(* The extraction: slides of text shapes "A" at tops around the row edges   *)
(* 10, 30, 50 and above the slide, at two lefts, and of 2 x 2 tables.       *)

SortTops == {-30, -10, 0, 9, 10, 11, 30, 50}
SortLefts == {0, 50}

SortShapes ==
    {Placed(TextShape(<<PlainParagraph(<<65>>)>>, "None"), left, top, 100, 20) :
        left \in SortLefts, top \in SortTops}
    \cup {Placed(TextShape(<<PlainParagraph(<<65>>), PlainParagraph(<<32>>),
                            PlainParagraph(<<66>>)>>, "None"), 50, 10, 100, 20),
          Placed(Raising(TextShape(<<PlainParagraph(<<65>>)>>, "None")), 0, 0, 100, 20),
          Placed(Picture, 0, 0, 100, 20)}
    \cup {Placed(TableShape(<< <<Cell(<<PlainParagraph(<<65>>)>>),
                                 Cell(<<PlainParagraph(<<66>>)>>)>>,
                               <<Cell(<<PlainParagraph(<<>>)>>),
                                 Cell(<<PlainParagraph(<<65>>)>>)>> >>),
                  0, top, 100, 40) : top \in {0, 10}}

InitSort ==
    \E shapes \in SeqsUpTo(SortShapes, MaxSortShapes) :
        /\ source = <<Slide(shapes, NoNotes)>>
        /\ edited_slides_data = <<>>
        /\ presentation = <<>>
        /\ text_replacements = EmptyMap
        /\ pc = "extract"
        /\ slide_idx = 1
        /\ total_replaced = 0
        /\ error_log = <<>>
        /\ result = InitResult
        /\ outputs = <<>>
        /\ run = 1
        /\ stdout = <<>>
        /\ exit_status = <<>>
        /\ texts = <<>>
        /\ run_styles = <<>>
        /\ original_file_path = "path"
        /\ temp_file = "None"
    /\ run_styles = <<>>
    /\ original_file_path = "path"
    /\ temp_file = "None"

\* process_pptx_file: texts = self.extract_text_from_slide(slide, page_number)
ExtractTextFromSlide ==
    /\ pc = "extract"
    /\ texts' = extract_text_from_slide(source[slide_idx])
    /\ pc' = "extracted"
    /\ UNCHANGED <<source, edited_slides_data, presentation, text_replacements,
                   slide_idx, total_replaced, error_log, result, outputs, run,
                   stdout, exit_status, run_styles, original_file_path, temp_file>>

NextSort == ExtractTextFromSlide

SpecSort == InitSort /\ [][NextSort]_vars

-----------------------------------------------------------------------------
(* src/lib/pptx/apply_translations.py.  Its payload is a sequence of       *)
(* slide_data [slide_number, translations], a translation being a record   *)
(* [original, translated].  The result it prints is in `result`, the file  *)
(* prs.save wrote in `outputs`, the status the process ended with in       *)
(* `exit_status`; a process that reaches the end of main ends with 0.      *)

ERR_USAGE == "Usage: python apply_translations.py"
ERR_READ == "Failed to read translations JSON file"
ERR_APPLY == "exception"

\* the run's font with the saved name, size, bold and italic put back, each
\* only when it was set
RestoreFont(r, font) ==
    [r EXCEPT !.font.name = IF font.name # <<>> THEN font.name ELSE @,
              !.font.size = IF font.size # 0 THEN font.size ELSE @,
              !.font.bold = IF font.bold # "None" THEN font.bold ELSE @,
              !.font.italic = IF font.italic # "None" THEN font.italic ELSE @]

\* the same, and the colour
RestoreFontAndColor(r, font) ==
    [RestoreFont(r, font) EXCEPT
        !.font.color = IF font.color # <<>> THEN font.color ELSE @]

\* the paragraphs after shape.text = translated_text and the restoring of
\* the font on the first run of the first paragraph (lines 96-108)
RestoredShapeParagraphs(fresh, font) ==
    IF fresh[1].runs # <<>>
    THEN [fresh EXCEPT ![1].runs[1] = RestoreFont(@, font)]
    ELSE fresh

\* lines 83-113: the text shape after the translation is written to it
ApplyToShape(shape, translated_text) ==
    [shape EXCEPT !.paragraphs =
        IF shape.paragraphs # <<>> /\ shape.paragraphs[1].runs # <<>>
        THEN RestoredShapeParagraphs(SetFrameText(translated_text),
                                     shape.paragraphs[1].runs[1].font)
        ELSE SetFrameText(translated_text)]

HasRuns(p) == p.runs # <<>>

\* original_font_properties: the font of the first run of every paragraph
\* that has a run
FontProperties(with_runs) == [i \in 1..Len(with_runs) |-> with_runs[i].runs[1].font]

\* lines 152-169: every run of paragraph i gets the i-th saved font
RestoredCellParagraphs(fresh, props) ==
    [i \in 1..Len(fresh) |->
        IF i <= Len(props) /\ fresh[i].runs # <<>>
        THEN [fresh[i] EXCEPT !.runs =
                 [k \in 1..Len(fresh[i].runs) |->
                     RestoreFontAndColor(fresh[i].runs[k], props[i])]]
        ELSE fresh[i]]

\* lines 122-169: the cell after the translation is written to it
ApplyToCell(cell, translated_text) ==
    [cell EXCEPT !.paragraphs =
        RestoredCellParagraphs(SetFrameText(translated_text),
                               FontProperties(SelectSeq(cell.paragraphs, HasRuns)))]

\* table_cells: the cells with text, row by row, each with its text
TableCells(shape) ==
    Flatten([r \in 1..Len(shape.rows) |->
        Flatten([c \in 1..Len(shape.rows[r]) |->
            IF cell_key(shape.rows[r][c]) = <<>> THEN <<>>
            ELSE <<[row |-> r, col |-> c,
                    original_text |-> cell_key(shape.rows[r][c])]>>])])

\* shape_text_map, one entry per shape of the slide (type "none": no entry)
ShapeTextMap(shapes) ==
    [i \in 1..Len(shapes) |->
        IF shapes[i].kind = "text" /\ strip(FrameText(shapes[i].paragraphs)) # <<>>
        THEN [type |-> "text",
              original_text |-> strip(FrameText(shapes[i].paragraphs)),
              table_cells |-> <<>>]
        ELSE IF shapes[i].kind = "table"
        THEN [type |-> "table", original_text |-> <<>>,
              table_cells |-> TableCells(shapes[i])]
        ELSE [type |-> "none", original_text |-> <<>>, table_cells |-> <<>>]]

\* does building shape_text_map raise: shape.table of a table raises
MapRaises(shapes) ==
    \E i \in 1..Len(shapes) : shapes[i].kind = "table" /\ shapes[i].raises = "frame"

\* the cells of table_cells whose recorded text is original_text
MatchingCells(table_cells, original_text) ==
    {k \in 1..Len(table_cells) : table_cells[k].original_text = original_text}

\* the first of them
FirstMatch(table_cells, hits) ==
    table_cells[CHOOSE k \in hits : \A j \in hits : k <= j]

\* the table after the first cell that matches got the translation
ApplyToTable(shape, hit, translated_text) ==
    [shape EXCEPT !.rows[hit.row][hit.col] = ApplyToCell(@, translated_text)]

\* lines 79-172, `for shape_info in shape_text_map` from entry i on: a text
\* shape that matches ends the loop, a table that matches does not.
\* done is [shapes, applied_count]
RECURSIVE ShapeInfoLoop(_, _, _, _, _)
ShapeInfoLoop(done, map, i, original_text, translated_text) ==
    IF i > Len(map) THEN done
    ELSE IF map[i].type = "text" /\ map[i].original_text = original_text
    THEN [shapes |-> [done.shapes EXCEPT ![i] = ApplyToShape(@, translated_text)],
          applied_count |-> done.applied_count + 1]
    ELSE IF /\ map[i].type = "table"
            /\ MatchingCells(map[i].table_cells, original_text) # {}
    THEN ShapeInfoLoop(
             [shapes |-> [done.shapes EXCEPT ![i] =
                             ApplyToTable(@,
                                 FirstMatch(map[i].table_cells,
                                     MatchingCells(map[i].table_cells, original_text)),
                                 translated_text)],
              applied_count |-> done.applied_count + 1],
             map, i + 1, original_text, translated_text)
    ELSE ShapeInfoLoop(done, map, i + 1, original_text, translated_text)

\* lines 71-172, `for translation in translations` from translation k on
RECURSIVE TranslationsLoop(_, _, _, _)
TranslationsLoop(done, map, translations, k) ==
    IF k > Len(translations) THEN done
    ELSE IF \/ strip(translations[k].translated) = <<>>
            \/ strip(translations[k].original) = <<>>
    THEN TranslationsLoop(done, map, translations, k + 1)
    ELSE TranslationsLoop(
             ShapeInfoLoop(done, map, 1, strip(translations[k].original),
                           strip(translations[k].translated)),
             map, translations, k + 1)

\* the slide and the count after one slide_data
ApplySlideData(slide, translations, applied_count) ==
    TranslationsLoop([shapes |-> slide.shapes, applied_count |-> applied_count],
                     ShapeTextMap(slide.shapes), translations, 1)

\* lines 32-172, `for slide_data in translations_data.get('slides', [])` from
\* slide_data j on.  done is [prs, applied_count, raised]
RECURSIVE SlideDataLoop(_, _, _)
SlideDataLoop(done, slides, j) ==
    IF j > Len(slides) \/ done.raised THEN done
    ELSE IF slides[j].slide_number <= 0 \/ slides[j].slide_number > Len(done.prs)
    THEN SlideDataLoop(done, slides, j + 1)
    ELSE IF MapRaises(done.prs[slides[j].slide_number].shapes)
    THEN [done EXCEPT !.raised = TRUE]
    ELSE SlideDataLoop(
             [prs |-> [done.prs EXCEPT ![slides[j].slide_number].shapes =
                          ApplySlideData(done.prs[slides[j].slide_number],
                                         slides[j].translations,
                                         done.applied_count).shapes],
              applied_count |->
                  ApplySlideData(done.prs[slides[j].slide_number],
                                 slides[j].translations,
                                 done.applied_count).applied_count,
              raised |-> FALSE],
             slides, j + 1)

\* apply_translations_to_pptx from Presentation(input_path) to the end of
\* the loop over the slides
apply_translations(prs, slides) ==
    SlideDataLoop([prs |-> prs, applied_count |-> 0, raised |-> FALSE], slides, 1)

\* the dictionary of lines 177-182
ApplySuccess(applied_count) ==
    [success |-> TRUE, applied_count |-> applied_count, output_path |-> "output_path"]

\* the dictionary of lines 185-189
ApplyFailure == [success |-> FALSE, error |-> ERR_APPLY]

\* bounds
MaxApplyShapes == 2         \* shapes of the slide (apply)
MaxApplyTranslations == 2   \* translations of the slide_data (apply)

ApplyShapes ==
    {TextShape(<<PlainParagraph(t)>>, "None") : t \in WalkTexts}
    \cup {TableShape(<< <<Cell(<<PlainParagraph(<<65>>)>>),
                          Cell(<<PlainParagraph(t)>>)>> >>) : t \in WalkTexts}
    \cup {Raising(TableShape(<< <<Cell(<<PlainParagraph(<<65>>)>>)>> >>)),
          GroupShape(<<TextShape(<<PlainParagraph(<<65>>)>>, "None")>>)}

ApplyDocuments ==
    {<<Slide(shapes, NoNotes)>> : shapes \in SeqsUpTo(ApplyShapes, MaxApplyShapes)}

ApplyPayloads ==
    {<<[slide_number |-> n, translations |-> ts]>> :
        n \in 0..1, ts \in SeqsFrom0(WalkRecords, MaxApplyTranslations)}

InitApply ==
    \E doc \in ApplyDocuments, payload \in ApplyPayloads :
        /\ source = doc
        /\ edited_slides_data = payload
        /\ presentation = <<>>
        /\ text_replacements = EmptyMap
        /\ pc = "main"
        /\ slide_idx = 1
        /\ total_replaced = 0
        /\ error_log = <<>>
        /\ result = <<>>
        /\ outputs = <<>>
        /\ run = 1
        /\ stdout = <<>>
        /\ exit_status = <<>>
        /\ texts = <<>>
        /\ run_styles = <<>>
        /\ original_file_path = "path"
        /\ temp_file = "None"
    /\ run_styles = <<>>
    /\ original_file_path = "path"
    /\ temp_file = "None"

\* main, lines 192-197: the argument count is not 4
ApplyUsage ==
    /\ pc = "main"
    /\ stdout' = <<[success |-> FALSE, error |-> ERR_USAGE]>>
    /\ exit_status' = <<1>>
    /\ pc' = "exited"
    /\ UNCHANGED <<source, edited_slides_data, presentation, text_replacements,
                   slide_idx, total_replaced, error_log, result, outputs, run, texts,
                   run_styles, original_file_path, temp_file>>

\* main, lines 204-212: the translations file cannot be read
ApplyReadFails ==
    /\ pc = "main"
    /\ stdout' = <<[success |-> FALSE, error |-> ERR_READ]>>
    /\ exit_status' = <<1>>
    /\ pc' = "exited"
    /\ UNCHANGED <<source, edited_slides_data, presentation, text_replacements,
                   slide_idx, total_replaced, error_log, result, outputs, run, texts,
                   run_styles, original_file_path, temp_file>>

\* main, lines 214-215, with apply_translations_to_pptx raising at its start:
\* json.loads raises (no JSON) or Presentation(input_path) raises (no such
\* file, no presentation); the except clause returns the failure dictionary,
\* main prints it and ends
ApplyOpenFails ==
    /\ pc = "main"
    /\ result' = ApplyFailure
    /\ stdout' = <<result'>>
    /\ exit_status' = <<0>>
    /\ pc' = "returned"
    /\ UNCHANGED <<source, edited_slides_data, presentation, text_replacements,
                   slide_idx, total_replaced, error_log, outputs, run, texts,
                   run_styles, original_file_path, temp_file>>

\* main, lines 214-215, with the file opened and the payload read: the loop
\* runs; if it raised the failure dictionary is returned, else prs.save
\* writes the file and the success dictionary is returned; main prints the
\* dictionary and ends
ApplyTranslationsToPptx ==
    /\ pc = "main"
    /\ \E done \in {apply_translations(source, edited_slides_data)} :
           /\ presentation' = done.prs
           /\ outputs' = IF done.raised THEN outputs ELSE Append(outputs, done.prs)
           /\ result' = IF done.raised THEN ApplyFailure
                         ELSE ApplySuccess(done.applied_count)
    /\ stdout' = <<result'>>
    /\ exit_status' = <<0>>
    /\ pc' = "returned"
    /\ UNCHANGED <<source, edited_slides_data, text_replacements, slide_idx,
                   total_replaced, error_log, run, texts, run_styles,
                   original_file_path, temp_file>>

\* main, lines 214-215, with prs.save raising after a loop that did not
\* raise: nothing is written, the failure dictionary is returned and printed
ApplySaveFails ==
    /\ pc = "main"
    /\ \E done \in {apply_translations(source, edited_slides_data)} :
           /\ ~done.raised
           /\ presentation' = done.prs
    /\ result' = ApplyFailure
    /\ stdout' = <<result'>>
    /\ exit_status' = <<0>>
    /\ pc' = "returned"
    /\ UNCHANGED <<source, edited_slides_data, text_replacements, slide_idx,
                   total_replaced, error_log, outputs, run, texts,
                   run_styles, original_file_path, temp_file>>

NextApply ==
    \/ ApplyUsage
    \/ ApplyReadFails
    \/ ApplyOpenFails
    \/ ApplyTranslationsToPptx
    \/ ApplySaveFails

SpecApply == InitApply /\ [][NextApply]_vars

-----------------------------------------------------------------------------
(* PPTXTranslator.extract_text_style on a run whose font cannot be read in *)
(* full.  Such a run is [text, font, raises]: raises names the attribute   *)
(* of run.font whose read raises an exception, "None" when every read      *)
(* succeeds.                                                               *)

\* the place of an attribute in the order extract_text_style reads them
ReadOrder(attribute) ==
    CASE attribute = "name" -> 1
      [] attribute = "size" -> 2
      [] attribute = "bold" -> 3
      [] attribute = "italic" -> 4
      [] attribute = "underline" -> 5
      [] attribute = "color" -> 6
      [] OTHER -> 7

\* extract_text_style, lines 208-250: the reads are in one try block, so the
\* read that raises ends them all (the colour has a try block of its own, and
\* is the last read); what was captured before stays in the TextStyle
extract_text_style_raising(r, raises) ==
    [font_name |-> IF ReadOrder(raises) > 1 THEN extract_text_style(r).font_name
                   ELSE EmptyTextStyle.font_name,
     font_size |-> IF ReadOrder(raises) > 2 THEN extract_text_style(r).font_size
                   ELSE EmptyTextStyle.font_size,
     bold      |-> IF ReadOrder(raises) > 3 THEN extract_text_style(r).bold
                   ELSE EmptyTextStyle.bold,
     italic    |-> IF ReadOrder(raises) > 4 THEN extract_text_style(r).italic
                   ELSE EmptyTextStyle.italic,
     underline |-> IF ReadOrder(raises) > 5 THEN extract_text_style(r).underline
                   ELSE EmptyTextStyle.underline,
     color_rgb |-> IF ReadOrder(raises) > 6 THEN extract_text_style(r).color_rgb
                   ELSE EmptyTextStyle.color_rgb]

\* replace_text_in_shape, lines 343-345: run_styles of a paragraph
RunStyles(runs) ==
    [i \in 1..Len(runs) |->
        <<runs[i].text, extract_text_style_raising(runs[i], runs[i].raises)>>]

(* The extraction of styles: a paragraph of two runs, the first with any   *)
(* font of the style documents and any failing read, the second readable.  *)

StyleReads == {"None", "name", "size", "bold", "italic", "underline", "color"}

InitExtract ==
    \E font \in StyleFonts, raises \in StyleReads :
        /\ source = <<Slide(<<TextShape(
                         <<[runs |-> <<[text |-> <<72>>, font |-> font,
                                        raises |-> raises],
                                       [text |-> <<87>>,
                                        font |-> [NoFont EXCEPT !.name = Arial,
                                                                !.size = Pt(24),
                                                                !.bold = "True"],
                                        raises |-> "None"]>>,
                            fld |-> <<>>, pPr |-> "None"]>>, "None")>>, NoNotes)>>
        /\ edited_slides_data = <<>>
        /\ presentation = source
        /\ text_replacements = EmptyMap
        /\ pc = "styles"
        /\ slide_idx = 1
        /\ total_replaced = 0
        /\ error_log = <<>>
        /\ result = InitResult
        /\ outputs = <<>>
        /\ run = 1
        /\ stdout = <<>>
        /\ exit_status = <<>>
        /\ texts = <<>>
        /\ run_styles = <<>>
        /\ original_file_path = "path"
        /\ temp_file = "None"

\* replace_text_in_shape, lines 343-345, on the paragraph of the document
ExtractRunStyles ==
    /\ pc = "styles"
    /\ run_styles' = RunStyles(presentation[1].shapes[1].paragraphs[1].runs)
    /\ pc' = "styled"
    /\ UNCHANGED <<source, edited_slides_data, presentation, text_replacements,
                   slide_idx, total_replaced, error_log, result, outputs, run,
                   stdout, exit_status, texts, original_file_path, temp_file>>

NextExtract == ExtractRunStyles

SpecExtract == InitExtract /\ [][NextExtract]_vars

-----------------------------------------------------------------------------
(* python_backend/generate_translated_pptx.py: the replacement at the      *)
(* level of the runs.  It reads the payload of generate_pptx.py            *)
(* (slide_data [pageNumber, texts]); a cell is [paragraphs] here, so the   *)
(* auto_size it sets on the text frame of a cell is not in the model.      *)

\* original_text = "".join(run.text for run in paragraph.runs).strip()
RunsText(p) == strip(Concat([i \in 1..Len(p.runs) |-> p.runs[i].text]))

\* lines 100-111 (and 154-160): the first run takes the translation, the
\* runs after it are emptied and stay; a paragraph without runs gets a run
ReplaceRuns(p, translated_text) ==
    IF p.runs # <<>>
    THEN [p EXCEPT !.runs =
             [i \in 1..Len(p.runs) |->
                 [p.runs[i] EXCEPT !.text = IF i = 1 THEN translated_text ELSE <<>>]]]
    ELSE [p EXCEPT !.runs = <<[NewRun EXCEPT !.text = translated_text]>>]

\* lines 87-111 (and 148-160): the loop over the paragraphs of a text frame
RunLevelParagraphs(paragraphs, text_map) ==
    [i \in 1..Len(paragraphs) |->
        IF RunsText(paragraphs[i]) # <<>> /\ RunsText(paragraphs[i]) \in DOMAIN text_map
        THEN ReplaceRuns(paragraphs[i], text_map[RunsText(paragraphs[i])])
        ELSE paragraphs[i]]

\* replace_text_in_shape of generate_translated_pptx.py, lines 68-111
RunLevelReplaceTextInShape(shape, text_map) ==
    IF shape.kind = "text"
    THEN [shape EXCEPT !.auto_size = "NONE",
                       !.paragraphs = RunLevelParagraphs(@, text_map)]
    ELSE shape

\* process_slide of generate_translated_pptx.py, lines 129-165, for one shape
RunLevelProcessShape(shape, text_map) ==
    IF shape.kind = "text" THEN RunLevelReplaceTextInShape(shape, text_map)
    ELSE IF shape.kind = "table"
    THEN [shape EXCEPT !.rows =
             [r \in 1..Len(shape.rows) |->
                 [c \in 1..Len(shape.rows[r]) |->
                     [shape.rows[r][c] EXCEPT
                         !.paragraphs = RunLevelParagraphs(@, text_map)]]]]
    ELSE IF shape.kind = "group"
    THEN [shape EXCEPT !.shapes =
             [i \in 1..Len(shape.shapes) |->
                 RunLevelReplaceTextInShape(shape.shapes[i], text_map)]]
    ELSE shape

\* process_slide, lines 121-126: text_map of the records from record k on,
\* a later record replacing an earlier one with the same original
RECURSIVE RunLevelTextMap(_, _, _)
RunLevelTextMap(text_map, slide_translations, k) ==
    IF k > Len(slide_translations) THEN text_map
    ELSE IF /\ strip(slide_translations[k].original) # <<>>
            /\ strip(slide_translations[k].translated) # <<>>
    THEN RunLevelTextMap(
             [o \in DOMAIN text_map \cup {strip(slide_translations[k].original)} |->
                 IF o = strip(slide_translations[k].original)
                 THEN strip(slide_translations[k].translated)
                 ELSE text_map[o]],
             slide_translations, k + 1)
    ELSE RunLevelTextMap(text_map, slide_translations, k + 1)

\* process_slide of generate_translated_pptx.py, given its text_map
RunLevelProcessSlide(slide, text_map) ==
    [slide EXCEPT !.shapes =
        [i \in 1..Len(slide.shapes) |-> RunLevelProcessShape(slide.shapes[i], text_map)]]

\* generate_translated_pptx, lines 184-195: the loop over slides_data from
\* slide_data j on
RECURSIVE RunLevelSlides(_, _, _)
RunLevelSlides(prs, slides_data, j) ==
    IF j > Len(slides_data) THEN prs
    ELSE IF 1 <= slides_data[j].pageNumber /\ slides_data[j].pageNumber <= Len(prs)
    THEN RunLevelSlides(
             [prs EXCEPT ![slides_data[j].pageNumber] =
                 RunLevelProcessSlide(@, RunLevelTextMap(EmptyMap, slides_data[j].texts, 1))],
             slides_data, j + 1)
    ELSE RunLevelSlides(prs, slides_data, j + 1)

\* generate_translated_pptx of generate_translated_pptx.py: the document is
\* copied, opened, every slide_data is applied and the result is saved
GenerateTranslatedPptx ==
    /\ pc = "start"
    /\ presentation' = RunLevelSlides(source, edited_slides_data, 1)
    /\ outputs' = Append(outputs, presentation')
    /\ stdout' = <<"Successfully generated translated PPTX">>
    /\ exit_status' = <<0>>
    /\ pc' = "generated"
    /\ UNCHANGED <<source, edited_slides_data, text_replacements, slide_idx,
                   total_replaced, error_log, result, run, texts, run_styles,
                   original_file_path, temp_file>>

\* generate_translated_pptx of generate_translated_pptx.py raises (the copy,
\* the payload, Presentation() or save): the exception is raised again, the
\* process ends with a traceback and nothing is written
GenerateTranslatedPptxRaises ==
    /\ pc = "start"
    /\ exit_status' = <<1>>
    /\ pc' = "exited"
    /\ UNCHANGED <<source, edited_slides_data, presentation, text_replacements,
                   slide_idx, total_replaced, error_log, result, outputs, run,
                   stdout, texts, run_styles, original_file_path, temp_file>>

NextRunLevel ==
    \/ GenerateTranslatedPptx
    \/ GenerateTranslatedPptxRaises

\* runs of generate_translated_pptx.py over the paragraphs of the style
SpecRunLevel == InitStyle /\ [][NextRunLevel]_vars

-----------------------------------------------------------------------------
(* Text units of the document the run started from, and what the run made  *)
(* of them.  The walk changes no shape count, no paragraph count of a text *)
(* shape and no cell count, so a position of source is one of presentation.*)

Loaded == presentation # <<>>

\* the slide loop of translate is over (or was skipped for an empty map)
Walked == pc \in {"notes", "translated", "done"}

\* <<slide, shape>> of the top-level shapes of a kind
ShapePositions(kind) ==
    UNION {{<<k, s>> : s \in {x \in 1..Len(source[k].shapes) :
                                 source[k].shapes[x].kind = kind}} :
           k \in 1..Len(source)}

\* <<slide, shape, paragraph>> of the paragraphs of top-level text shapes
ParagraphPositions ==
    UNION {{<<q[1], q[2], i>> :
               i \in 1..Len(source[q[1]].shapes[q[2]].paragraphs)} :
           q \in ShapePositions("text")}

\* <<slide, shape, row, column>> of the cells of top-level tables
CellPositions ==
    UNION {UNION {{<<q[1], q[2], r, c>> :
                      c \in 1..Len(source[q[1]].shapes[q[2]].rows[r])} :
                  r \in 1..Len(source[q[1]].shapes[q[2]].rows)} :
           q \in ShapePositions("table")}

ParagraphBefore(q) == source[q[1]].shapes[q[2]].paragraphs[q[3]]
ParagraphAfter(q) == presentation[q[1]].shapes[q[2]].paragraphs[q[3]]
CellBefore(q) == source[q[1]].shapes[q[2]].rows[q[3]][q[4]]
CellAfter(q) == presentation[q[1]].shapes[q[2]].rows[q[3]][q[4]]

\* the trimmed text a unit had before the run
TrimmedParagraph(q) == strip(ParagraphText(ParagraphBefore(q)))
TrimmedCell(q) == strip(FrameText(CellBefore(q).paragraphs))
TrimmedNotes(k) == strip(FrameText(source[k].notes.paragraphs))

ParagraphChanged(q) == ParagraphAfter(q) # ParagraphBefore(q)
CellChanged(q) == CellAfter(q) # CellBefore(q)
NotesChanged(k) == presentation[k].notes # source[k].notes

\* the records of the payload, in payload order
PayloadRecords == AllRecords(edited_slides_data)

\* a record the map builder must leave out
Excluded(rec) ==
    \/ strip(rec.original) = <<>>
    \/ strip(rec.translated) = <<>>
    \/ strip(rec.original) = strip(rec.translated)

\* ASCII upper case folded to lower case
Lower(t) == [i \in 1..Len(t) |-> IF 65 <= t[i] /\ t[i] <= 90 THEN t[i] + 32 ELSE t[i]]

\* key is not the text but differs from it only in case, or is a proper
\* substring or superstring of it
NearMiss(text, key) ==
    /\ key # text
    /\ \/ Lower(key) = Lower(text)
       \/ Contains(text, key)
       \/ Contains(key, text)

-----------------------------------------------------------------------------
(* Claims                                                                  *)

\* C1: a paragraph of a text shape, or a table cell, is replaced only if its
\* text, trimmed of leading and trailing whitespace, is exactly (the whole
\* string, case-sensitively) a key of the replacement map.
ExactMatchOnly ==
    Loaded =>
        /\ \A q \in ParagraphPositions :
               ParagraphChanged(q) => TrimmedParagraph(q) \in DOMAIN text_replacements
        /\ \A q \in CellPositions :
               CellChanged(q) => TrimmedCell(q) \in DOMAIN text_replacements

\* C1 witness: a run in which a paragraph was replaced while a cell whose text
\* only nearly matched a key (case, substring, superstring) was left alone.
ExactMatchWitness ==
    /\ pc = "done"
    /\ \E q \in ParagraphPositions : ParagraphChanged(q)
    /\ \E q \in CellPositions :
           /\ ~CellChanged(q)
           /\ \E key \in DOMAIN text_replacements : NearMiss(TrimmedCell(q), key)

\* C2: once the map is prepared, every entry binds a non-empty trimmed original
\* to the non-empty, different trimmed translation of a payload record; every
\* record that is not excluded has its trimmed original as a key; and a payload
\* of excluded records only changes nothing and counts no replacement.
ExcludedRecordsStayOut ==
    pc \in {"slides", "notes", "translated", "done"} =>
        /\ \A k \in DOMAIN text_replacements :
               /\ k # <<>>
               /\ text_replacements[k] # <<>>
               /\ text_replacements[k] # k
               /\ \E i \in 1..Len(PayloadRecords) :
                      /\ strip(PayloadRecords[i].original) = k
                      /\ strip(PayloadRecords[i].translated) = text_replacements[k]
        /\ \A i \in 1..Len(PayloadRecords) :
               ~Excluded(PayloadRecords[i]) =>
                   strip(PayloadRecords[i].original) \in DOMAIN text_replacements
        /\ (\A i \in 1..Len(PayloadRecords) : Excluded(PayloadRecords[i])) =>
               /\ total_replaced = 0
               /\ presentation = source
               /\ pc = "done" => result.replacements = 0

\* C2 witness: a finished run whose payload held a no-op record for the text of
\* a paragraph of the document next to a record that was used.
ExcludedRecordWitness ==
    /\ pc = "done"
    /\ run = 1
    /\ result.replacements > 0
    /\ \E i \in 1..Len(PayloadRecords), q \in ParagraphPositions :
           /\ Excluded(PayloadRecords[i])
           /\ strip(PayloadRecords[i].original) = TrimmedParagraph(q)
           /\ ~ParagraphChanged(q)

\* the payload records listed under slide k
RecordsOfSlide(k) ==
    AllRecords(SelectSeq(edited_slides_data, LAMBDA d : d.pageNumber = k))

\* C3: a text unit on slide k (paragraph, cell, notes) is replaced only by a
\* record the payload lists under slide k.
ReplacedOnlyByOwnSlide ==
    Loaded =>
        /\ \A q \in ParagraphPositions :
               ParagraphChanged(q) =>
                   \E i \in 1..Len(RecordsOfSlide(q[1])) :
                       strip(RecordsOfSlide(q[1])[i].original) = TrimmedParagraph(q)
        /\ \A q \in CellPositions :
               CellChanged(q) =>
                   \E i \in 1..Len(RecordsOfSlide(q[1])) :
                       strip(RecordsOfSlide(q[1])[i].original) = TrimmedCell(q)
        /\ \A k \in 1..Len(source) :
               NotesChanged(k) =>
                   \E i \in 1..Len(RecordsOfSlide(k)) :
                       strip(RecordsOfSlide(k)[i].original) = TrimmedNotes(k)

\* C4: a second run on the output of the first, with the same payload, replaces
\* nothing and writes the same document.
SecondRunIsNoOp ==
    (pc = "done" /\ run = 2) =>
        /\ result.replacements = 0
        /\ outputs[2] = outputs[1]

\* C5: after the slide loop every paragraph of every top-level text shape whose
\* trimmed text was a key holds the key's translation, and each of them was
\* counted.
EveryMatchingParagraphReplaced ==
    (Walked /\ DOMAIN text_replacements # {}) =>
        /\ \A q \in ParagraphPositions :
               TrimmedParagraph(q) \in DOMAIN text_replacements =>
                   ParagraphText(ParagraphAfter(q))
                       = text_replacements[TrimmedParagraph(q)]
        /\ total_replaced >=
               Cardinality({q \in ParagraphPositions :
                               TrimmedParagraph(q) \in DOMAIN text_replacements})

\* the places of the payload records whose trimmed original is k
RecordsFor(k) == {i \in 1..Len(PayloadRecords) : strip(PayloadRecords[i].original) = k}

\* the largest number of a non-empty set of numbers
Max(S) == CHOOSE n \in S : \A m \in S : m <= n

\* C6 as stated: when several records have the same trimmed original and
\* different translations, the map binds the original (if it binds it at all)
\* to the trimmed translation of the last of them.
LastRecordWins ==
    pc \in {"slides", "notes", "translated", "done"} =>
        \A i \in 1..Len(PayloadRecords), j \in 1..Len(PayloadRecords) :
            LET k == strip(PayloadRecords[i].original)
            IN  (/\ i < j
                 /\ strip(PayloadRecords[j].original) = k
                 /\ PayloadRecords[i].translated # PayloadRecords[j].translated
                 /\ k \in DOMAIN text_replacements) =>
                    text_replacements[k] = strip(PayloadRecords[Max(RecordsFor(k))].translated)

\* C6 amended: every key is bound to the trimmed translation of the last record,
\* in payload order, that has this trimmed original and is not excluded.
LastKeptRecordWins ==
    pc \in {"slides", "notes", "translated", "done"} =>
        \A k \in DOMAIN text_replacements :
            LET kept == {i \in RecordsFor(k) : ~Excluded(PayloadRecords[i])}
            IN  /\ kept # {}
                /\ text_replacements[k] = strip(PayloadRecords[Max(kept)].translated)

\* C6 witness: two kept records with the same trimmed original and different
\* trimmed translations, the map bound to the later one.
LastKeptRecordWitness ==
    /\ pc = "done"
    /\ \E i \in 1..Len(PayloadRecords), j \in 1..Len(PayloadRecords) :
           /\ i < j
           /\ ~Excluded(PayloadRecords[i])
           /\ ~Excluded(PayloadRecords[j])
           /\ strip(PayloadRecords[i].original) = strip(PayloadRecords[j].original)
           /\ strip(PayloadRecords[i].translated) # strip(PayloadRecords[j].translated)
           /\ text_replacements[strip(PayloadRecords[j].original)]
                  = strip(PayloadRecords[j].translated)

\* C7: a replaced paragraph of a text shape that had n >= 1 runs has exactly one
\* run, no other content, and the run's text is the translation.
ReplacedParagraphHasOneRun ==
    Loaded =>
        \A q \in ParagraphPositions :
            (ParagraphChanged(q) /\ Len(ParagraphBefore(q).runs) >= 1) =>
                /\ Len(ParagraphAfter(q).runs) = 1
                /\ ParagraphAfter(q).fld = <<>>
                /\ ParagraphAfter(q).runs[1].text = text_replacements[TrimmedParagraph(q)]

\* C7 witness: a paragraph of three runs, replaced.
ThreeRunsCollapsedWitness ==
    /\ pc = "done"
    /\ \E q \in ParagraphPositions :
           /\ Len(ParagraphBefore(q).runs) = 3
           /\ ParagraphChanged(q)
           /\ Len(ParagraphAfter(q).runs) = 1

\* every one of bold, italic, underline, size and colour is set on the font
AllExplicit(font) ==
    /\ font.bold # "None"
    /\ font.italic # "None"
    /\ font.underline # "None"
    /\ font.size # 0
    /\ font.color # <<>>

SameLook(f, g) ==
    /\ f.bold = g.bold
    /\ f.italic = g.italic
    /\ f.underline = g.underline
    /\ f.size = g.size
    /\ f.color = g.color

\* C8: when the first run of a replaced paragraph (of a text shape, or the first
\* paragraph of a replaced cell) set bold, italic, underline, size and RGB colour,
\* the single new run has the same five values.
ExplicitLookPreserved ==
    Loaded =>
        /\ \A q \in ParagraphPositions :
               (/\ ParagraphChanged(q)
                /\ ParagraphBefore(q).runs # <<>>
                /\ AllExplicit(ParagraphBefore(q).runs[1].font)) =>
                   SameLook(ParagraphAfter(q).runs[1].font,
                            ParagraphBefore(q).runs[1].font)
        /\ \A q \in CellPositions :
               (/\ CellChanged(q)
                /\ CellBefore(q).paragraphs[1].runs # <<>>
                /\ AllExplicit(CellBefore(q).paragraphs[1].runs[1].font)) =>
                   SameLook(CellAfter(q).paragraphs[1].runs[1].font,
                            CellBefore(q).paragraphs[1].runs[1].font)

\* C8 witness: a paragraph whose first run is bold 18pt red (and italic,
\* underlined), replaced by a text three characters long.
ExplicitLookWitness ==
    /\ pc = "done"
    /\ \E q \in ParagraphPositions :
           /\ ParagraphChanged(q)
           /\ ParagraphBefore(q).runs # <<>>
           /\ AllExplicit(ParagraphBefore(q).runs[1].font)
           /\ ParagraphBefore(q).runs[1].font.bold = "True"
           /\ ParagraphBefore(q).runs[1].font.size = Pt(18)
           /\ ParagraphBefore(q).runs[1].font.color = <<255, 0, 0>>
           /\ Len(ParagraphAfter(q).runs[1].text) = 3

\* a Hiragana, Katakana or CJK ideograph (unified, extension A) character
KanaOrIdeograph(c) ==
    \/ c \in 12352..12447
    \/ c \in 12448..12543
    \/ c \in 19968..40959
    \/ c \in 13312..19903

\* the font family the rule of C9 asks for: `family` is the first original
\* run's (<<>> when absent), `text` the translation
FamilyByRule(family, text) ==
    IF \E i \in 1..Len(text) : KanaOrIdeograph(text[i])
    THEN IF family # <<>> /\ \E i \in 1..Len(JAPANESE_FONTS) :
                                  Contains(family, JAPANESE_FONTS[i])
         THEN family
         ELSE JAPANESE_FONTS[1]
    ELSE family

\* the font family of the first run of a paragraph sequence's first paragraph
FirstFamily(paragraphs) ==
    IF paragraphs # <<>> /\ paragraphs[1].runs # <<>>
    THEN paragraphs[1].runs[1].font.name ELSE <<>>

\* C9 for paragraphs of text shapes and for table cells
FontFamilyRuleInShapes ==
    Loaded =>
        /\ \A q \in ParagraphPositions :
               ParagraphChanged(q) =>
                   FirstFamily(<<ParagraphAfter(q)>>)
                       = FamilyByRule(FirstFamily(<<ParagraphBefore(q)>>),
                                      text_replacements[TrimmedParagraph(q)])
        /\ \A q \in CellPositions :
               CellChanged(q) =>
                   FirstFamily(CellAfter(q).paragraphs)
                       = FamilyByRule(FirstFamily(CellBefore(q).paragraphs),
                                      text_replacements[TrimmedCell(q)])

\* C9: wherever the translator replaces text (paragraph, cell, notes), the new
\* run's font family is the first Japanese font when the translation has a
\* Hiragana, Katakana or ideograph character and the original family is absent
\* or not a Japanese font, and the original family otherwise.
FontFamilyRule ==
    /\ FontFamilyRuleInShapes
    /\ Loaded =>
           \A k \in 1..Len(source) :
               NotesChanged(k) =>
                   FirstFamily(presentation[k].notes.paragraphs)
                       = FamilyByRule(FirstFamily(source[k].notes.paragraphs),
                                      text_replacements[TrimmedNotes(k)])

\* the size C10 asks for after a replacement of a unit with these paragraphs
SizeByRule(paragraphs) ==
    IF paragraphs[1].runs # <<>> /\ paragraphs[1].runs[1].font.size # 0
    THEN paragraphs[1].runs[1].font.size
    ELSE Pt(11)

\* C10: after a replacement of a text-shape paragraph (with or without runs) or
\* of a table cell, the run with the translation has an explicit size: the
\* first original run's when it had one, 11pt otherwise.
ExplicitSizeAfterReplacement ==
    Loaded =>
        /\ \A q \in ParagraphPositions :
               ParagraphChanged(q) =>
                   /\ ParagraphAfter(q).runs # <<>>
                   /\ ParagraphAfter(q).runs[1].font.size
                          = SizeByRule(<<ParagraphBefore(q)>>)
        /\ \A q \in CellPositions :
               CellChanged(q) =>
                   /\ CellAfter(q).paragraphs[1].runs # <<>>
                   /\ CellAfter(q).paragraphs[1].runs[1].font.size
                          = SizeByRule(CellBefore(q).paragraphs)

\* C11: a replaced cell holds exactly one paragraph, with exactly one run and
\* no other content, and the run's text is the translation: the paragraphs
\* after the first are gone.
ReplacedCellHasOneParagraph ==
    Loaded =>
        \A q \in CellPositions :
            CellChanged(q) =>
                /\ Len(CellAfter(q).paragraphs) = 1
                /\ Len(CellAfter(q).paragraphs[1].runs) = 1
                /\ CellAfter(q).paragraphs[1].fld = <<>>
                /\ CellAfter(q).paragraphs[1].runs[1].text
                       = text_replacements[TrimmedCell(q)]

\* C11 witness: a cell of two paragraphs "H" and "W", replaced.
TwoParagraphCellWitness ==
    /\ pc = "done"
    /\ \E q \in CellPositions :
           /\ Len(CellBefore(q).paragraphs) = 2
           /\ ParagraphText(CellBefore(q).paragraphs[2]) = <<87>>
           /\ CellChanged(q)
           /\ Len(CellAfter(q).paragraphs) = 1

\* C12: in a table only the cells whose trimmed text is a key change, every
\* other cell keeps its text, and on a slide that holds nothing but tables the
\* count of the slide is the number of cells that changed.
TableCountsChangedCells ==
    /\ Loaded =>
           \A q \in CellPositions :
               /\ CellChanged(q) => TrimmedCell(q) \in DOMAIN text_replacements
               /\ TrimmedCell(q) \notin DOMAIN text_replacements =>
                      FrameText(CellAfter(q).paragraphs)
                          = FrameText(CellBefore(q).paragraphs)
    /\ (/\ pc = "slides"
        /\ slide_idx = 2
        /\ \A s \in 1..Len(source[1].shapes) : source[1].shapes[s].kind = "table") =>
           total_replaced
               = Cardinality({q \in CellPositions : q[1] = 1 /\ CellChanged(q)})

\* C12 witness: the first slide holds one table of two cells; after its turn
\* one cell has changed, the other has not, and the count is 1.
OneOfTwoCellsWitness ==
    /\ pc = "slides"
    /\ slide_idx = 2
    /\ Len(source[1].shapes) = 1
    /\ source[1].shapes[1].kind = "table"
    /\ CellChanged(<<1, 1, 1, 2>>)
    /\ ~CellChanged(<<1, 1, 1, 1>>)
    /\ total_replaced = 1

\* the texts of the units (paragraphs, cells) of a shape and of the shapes
\* nested in it at any depth, in document order
RECURSIVE NestedTexts(_)
NestedTexts(shape) ==
    IF shape.kind = "text"
    THEN [i \in 1..Len(shape.paragraphs) |-> ParagraphText(shape.paragraphs[i])]
    ELSE IF shape.kind = "table"
    THEN Flatten([r \in 1..Len(shape.rows) |->
                     [c \in 1..Len(shape.rows[r]) |->
                         FrameText(shape.rows[r][c].paragraphs)]])
    ELSE IF shape.kind = "group"
    THEN Flatten([i \in 1..Len(shape.shapes) |-> NestedTexts(shape.shapes[i])])
    ELSE <<>>

\* C13: after the slide loop every unit nested in a group shape, at whatever
\* depth and in a text shape or a table, whose trimmed text was a key holds the
\* key's translation.
NestedUnitsReplaced ==
    (Walked /\ DOMAIN text_replacements # {}) =>
        \A q \in ShapePositions("group") :
            LET before == NestedTexts(source[q[1]].shapes[q[2]])
                after == NestedTexts(presentation[q[1]].shapes[q[2]])
            IN  \A i \in 1..Len(before) :
                    strip(before[i]) \in DOMAIN text_replacements =>
                        after[i] = text_replacements[strip(before[i])]

\* C13 for the text shapes that are children of a top-level group
GroupChildrenReplaced ==
    (Walked /\ DOMAIN text_replacements # {}) =>
        \A q \in ShapePositions("group") :
            \A i \in 1..Len(source[q[1]].shapes[q[2]].shapes) :
                LET child == source[q[1]].shapes[q[2]].shapes[i]
                IN  (/\ child.kind = "text"
                     /\ Len(child.paragraphs) = 1
                     /\ paragraph_key(child.paragraphs[1]) \in DOMAIN text_replacements) =>
                        ParagraphText(presentation[q[1]].shapes[q[2]].shapes[i].paragraphs[1])
                            = text_replacements[paragraph_key(child.paragraphs[1])]

\* the notes of slide k, as they are now, are notes whose trimmed text is a key
NotesMatch(k) ==
    /\ presentation[k].notes.has_notes_slide
    /\ strip(FrameText(presentation[k].notes.paragraphs)) \in DOMAIN text_replacements

\* C14: a turn of the notes loop replaces the notes of its slide by the mapped
\* translation and adds one to the total when the trimmed notes text is a key,
\* and leaves the notes and the total alone when it is not; no other step
\* changes notes.
NotesReplacedWhenKey ==
    [][/\ (pc = "notes" /\ NotesMatch(slide_idx)) =>
              /\ FrameText(presentation'[slide_idx].notes.paragraphs)
                     = text_replacements[
                           strip(FrameText(presentation[slide_idx].notes.paragraphs))]
              /\ total_replaced' = total_replaced + 1
       /\ (pc = "notes" /\ ~NotesMatch(slide_idx)) =>
              /\ presentation'[slide_idx].notes = presentation[slide_idx].notes
              /\ total_replaced' = total_replaced
       /\ (pc # "notes" /\ Loaded /\ presentation' # <<>>) =>
              \A k \in 1..Len(presentation) :
                  presentation'[k].notes = presentation[k].notes]_vars

\* C14 witness: the notes of the first slide were replaced and counted while no
\* shape of that slide was.
NotesAloneWitness ==
    /\ pc = "done"
    /\ run = 1
    /\ NotesChanged(1)
    /\ presentation[1].shapes = source[1].shapes
    /\ \A q \in ParagraphPositions : ~ParagraphChanged(q)
    /\ total_replaced = 1

\* generate_translated_pptx has returned
Returned == pc \in {"done", "failed"}

\* C15: the result of generate_translated_pptx names an output path exactly
\* when success is true, and its replacements is an integer >= 0.
OutputIffSuccess ==
    /\ (result.output # "None") <=> result.success
    /\ result.replacements \in Nat
    /\ Returned => stdout = <<result>>

\* C15 witness: a second run that made replacements and then failed to save,
\* after a first run that returned success with the path.
FailedAfterSuccessWitness ==
    /\ pc = "failed"
    /\ run = 2
    /\ Len(outputs) = 1
    /\ result.replacements > 0
    /\ result.output = "None"
    /\ ~result.success

\* the messages of a printed JSON object
Messages(printed) ==
    IF "error" \in DOMAIN printed THEN <<printed.error>> ELSE printed.errors

\* C17: a step that ends the run on its input (the translations cannot be
\* read, the source is missing or does not load, the payload cannot be read:
\* the failures before the slide loop) leaves the document in memory unread or
\* as it was loaded, writes nothing, and prints success = false with a message
\* and exits with 1.
InputFailureBeforeMutation ==
    [][(pc \in {"start", "loaded"} /\ pc' \in {"failed", "exited"}) =>
           /\ presentation' \in {<<>>, source}
           /\ outputs' = outputs
           /\ ~stdout'[1].success
           /\ Messages(stdout'[1]) # <<>>
           /\ exit_status' = <<1>>]_vars

\* C17 witness: the source did not load.
LoadFailureWitness ==
    /\ pc = "failed"
    /\ run = 1
    /\ result.errors = <<ERR_LOAD>>
    /\ presentation = <<>>
    /\ outputs = <<>>

\* a top-level shape of the source of a kind raises when it is read
RaisingShape(kinds) ==
    \E k \in 1..Len(source) : \E i \in 1..Len(source[k].shapes) :
        source[k].shapes[i].raises = "frame" /\ source[k].shapes[i].kind \in kinds

\* C18: when a shape raised and was skipped while replacements were made and
\* the save succeeded, the result has success = true and a non-empty list of
\* warnings or errors.
PartialSuccessHasWarnings ==
    (pc = "done" /\ result.replacements > 0
        /\ RaisingShape({"text", "table", "group"})) =>
            /\ result.success
            /\ result.warnings # <<>> \/ result.errors # <<>>

\* C18 for the errors of text shapes and tables
PartialSuccessOfLoggedErrors ==
    (pc = "done" /\ result.replacements > 0 /\ RaisingShape({"text", "table"})) =>
        /\ result.success
        /\ result.warnings # <<>>

\* C19: when the save failed, the result has success = false, no output path,
\* and the number of replacements translate made in memory.
SaveFailureKeepsCount ==
    (pc = "failed" /\ result.errors # <<>>
        /\ result.errors[Len(result.errors)] = ERR_SAVE) =>
            /\ ~result.success
            /\ result.output = "None"
            /\ result.replacements = total_replaced
            /\ Len(outputs) = run - 1

\* C19 witness: a first run that replaced two units and failed to save.
SaveFailureWitness ==
    /\ pc = "failed"
    /\ run = 1
    /\ result.errors = <<ERR_SAVE>>
    /\ result.replacements = 2
    /\ presentation # source

\* the row bin of a vertical position: the multiple of the tolerance 20
\* nearest to it, the even multiple when two are equally near
RowBin(y) ==
    CHOOSE b \in {20 * k : k \in -5..5} :
        /\ \A c \in {20 * k : k \in -5..5} :
               (IF y >= b THEN y - b ELSE b - y) <= (IF y >= c THEN y - c ELSE c - y)
        /\ (2 * (IF y >= b THEN y - b ELSE b - y) = 20) => (b \div 20) % 2 = 0

\* C20: the list extract_text_from_slide returns holds the extracted units,
\* each once, and for any two consecutive units the pair (row bin of y, x) does
\* not decrease lexicographically.
SortedByRowThenX ==
    pc = "extracted" =>
        /\ Len(texts) = Len(extracted_texts(source[1]))
        /\ {texts[i] : i \in 1..Len(texts)}
               = {extracted_texts(source[1])[i] :
                     i \in 1..Len(extracted_texts(source[1]))}
        /\ \A i \in 1..(Len(texts) - 1) :
               \/ RowBin(texts[i].position.y) < RowBin(texts[i + 1].position.y)
               \/ /\ RowBin(texts[i].position.y) = RowBin(texts[i + 1].position.y)
                  /\ texts[i].position.x <= texts[i + 1].position.x

\* C20 witness: three units were extracted in the order y = 30, y = 11, y = 9
\* with the lower x further down; the list returned has the unit of y = 9
\* first, then y = 11, then y = 30.
SortedThreeRowsWitness ==
    /\ pc = "extracted"
    /\ Len(texts) = 3
    /\ <<texts[1].id, texts[2].id, texts[3].id>> = <<3, 2, 1>>
    /\ <<texts[1].position.y, texts[2].position.y, texts[3].position.y>> = <<9, 11, 30>>
    /\ <<texts[1].position.x, texts[2].position.x, texts[3].position.x>> = <<50, 50, 0>>

\* C16: whenever an entry point has ended, its exit status is 0 if the run
\* succeeded and it is not 0 if the run failed: what it printed says success
\* exactly when the status is 0.
ExitStatusTellsSuccess ==
    exit_status # <<>> => (exit_status[1] = 0 <=> stdout[1].success)

\* main of generate_pptx.py has ended after a failure, with a status other than 0
ExitStatusOfFailureWitness ==
    /\ pc = "failed"
    /\ exit_status = <<1>>
    /\ ~stdout[1].success

\* C24: any two units of the list extract_text_from_slide returns whose
\* vertical positions differ by less than 20 points stand in the list in
\* ascending order of their horizontal positions.
SameRowWithinTolerance ==
    pc = "extracted" =>
        \A i \in 1..Len(texts) : \A j \in 1..Len(texts) :
            (/\ i < j
             /\ texts[i].position.y - texts[j].position.y < row_threshold
             /\ texts[j].position.y - texts[i].position.y < row_threshold)
            => texts[i].position.x <= texts[j].position.x

\* the payload holds, for slide 1, one record per cell with text of the table
\* that is shape i of the slide, in the order of the cells: the original is the
\* text of the cell, the translation another text that is not empty
OneRecordPerCell(i) ==
    /\ source[1].shapes[i].kind = "table"
    /\ edited_slides_data[1].slide_number = 1
    /\ Len(edited_slides_data[1].translations) = Len(TableCells(source[1].shapes[i]))
    /\ \A k \in 1..Len(TableCells(source[1].shapes[i])) :
           /\ edited_slides_data[1].translations[k].original
                  = TableCells(source[1].shapes[i])[k].original_text
           /\ edited_slides_data[1].translations[k].translated
                  # edited_slides_data[1].translations[k].original
           /\ strip(edited_slides_data[1].translations[k].translated) # <<>>

\* C21: when apply_translations_to_pptx was given one record per cell with
\* text of a table and returned success, every such cell of the table in the
\* file written holds the translation of its record.
EveryCellHoldsItsTranslation ==
    \A i \in 1..Len(source[1].shapes) :
        (pc = "returned" /\ result.success /\ OneRecordPerCell(i))
        => \A k \in 1..Len(TableCells(source[1].shapes[i])) :
               cell_key(outputs[1][1].shapes[i].rows
                            [TableCells(source[1].shapes[i])[k].row]
                            [TableCells(source[1].shapes[i])[k].col])
                   = strip(edited_slides_data[1].translations[k].translated)

\* C29: in every result generate_translated_pptx returned, success is false
\* exactly when the errors list is not empty; a successful result has an empty
\* errors list and the errors the run recovered from are its warnings.
SuccessIffNoErrors ==
    Returned =>
        /\ ~result.success <=> result.errors # <<>>
        /\ result.success => result.errors = <<>> /\ result.warnings = error_log

\* C29 witness: a run that recovered from the error of a shape has returned
\* success, with the message under warnings and no errors.
SuccessWithWarningsWitness ==
    /\ pc = "done"
    /\ result.success
    /\ result.errors = <<>>
    /\ result.warnings = <<ERR_SHAPE>>
    /\ result.replacements = 1

\* the top-level shapes of the source that raise when they are read
RaisingShapes ==
    {q \in UNION {{<<k, i>> : i \in 1..Len(source[k].shapes)} : k \in 1..Len(source)} :
        source[q[1]].shapes[q[2]].raises = "frame"}

\* C22: at the end of the loop over the slides of a first run (the loop over
\* the notes not yet begun), error_log holds one
\* message per shape that raised, such a shape is as it was, every other shape
\* of every slide was processed, and the count is the count of those shapes.
ShapeErrorLoggedOthersProcessed ==
    (pc = "notes" /\ slide_idx = 1 /\ run = 1) =>
        /\ Len(error_log) = Cardinality(RaisingShapes)
        /\ \A k \in 1..Len(source) : \A i \in 1..Len(source[k].shapes) :
               presentation[k].shapes[i] =
                   IF <<k, i>> \in RaisingShapes THEN source[k].shapes[i]
                   ELSE ProcessShape(source[k].shapes[i], text_replacements).shape
        /\ total_replaced =
               Sum(Flatten([k \in 1..Len(source) |->
                   [i \in 1..Len(source[k].shapes) |->
                       IF <<k, i>> \in RaisingShapes THEN 0
                       ELSE ProcessShape(source[k].shapes[i], text_replacements).count]]))

\* C25: a paragraph of a text shape that had no runs is, after the walk of a
\* first run, what it was before, whatever its text and the map.
NoRunParagraphNeverReplaced ==
    (Walked /\ run = 1) =>
        \A q \in ParagraphPositions :
            ParagraphBefore(q).runs = <<>> => ParagraphAfter(q) = ParagraphBefore(q)

\* C28: after the walk of a first run, a shape none of whose units (its
\* paragraphs, its cells, those of the shapes nested in it) had a key of the
\* map as trimmed text is what it was before: text, runs and auto_size.
UnmatchedShapeUnchanged ==
    (Walked /\ run = 1) =>
        \A k \in 1..Len(source) : \A i \in 1..Len(source[k].shapes) :
            (\A n \in 1..Len(NestedTexts(source[k].shapes[i])) :
                strip(NestedTexts(source[k].shapes[i])[n]) \notin DOMAIN text_replacements)
            => presentation[k].shapes[i] = source[k].shapes[i]

\* C30: once generate_translated_pptx has returned from a run on a URL, the
\* temporary file of download_if_url does not exist.
TempFileGoneOnReturn ==
    (Returned /\ original_file_path = "url") => temp_file # "exists"

\* the runs of the paragraph whose styles were extracted
StyledRuns == source[1].shapes[1].paragraphs[1].runs

\* C23: in the styles extracted from the runs of a paragraph, a run one of
\* whose attributes could not be read has that attribute absent and every
\* other attribute as its font sets it, and the other runs have their styles.
AttributeFailureIsLocal ==
    pc = "styled" =>
        /\ Len(run_styles) = Len(StyledRuns)
        /\ \A i \in 1..Len(StyledRuns) :
               /\ StyledRuns[i].raises # "name"
                      => run_styles[i][2].font_name = StyledRuns[i].font.name
               /\ StyledRuns[i].raises # "size"
                      => run_styles[i][2].font_size = StyledRuns[i].font.size
               /\ StyledRuns[i].raises # "bold"
                      => run_styles[i][2].bold = StyledRuns[i].font.bold
               /\ StyledRuns[i].raises # "italic"
                      => run_styles[i][2].italic = StyledRuns[i].font.italic
               /\ StyledRuns[i].raises # "underline"
                      => run_styles[i][2].underline = StyledRuns[i].font.underline
               /\ StyledRuns[i].raises # "color"
                      => run_styles[i][2].color_rgb = StyledRuns[i].font.color
               /\ StyledRuns[i].raises = "name" => run_styles[i][2].font_name = <<>>
               /\ StyledRuns[i].raises = "size" => run_styles[i][2].font_size = 0
               /\ StyledRuns[i].raises = "bold" => run_styles[i][2].bold = "None"
               /\ StyledRuns[i].raises = "italic" => run_styles[i][2].italic = "None"
               /\ StyledRuns[i].raises = "underline"
                      => run_styles[i][2].underline = "None"
               /\ StyledRuns[i].raises = "color" => run_styles[i][2].color_rgb = <<>>

\* C23 for a colour that cannot be read, and for the runs beside the run
\* whose read failed
ColorFailureIsLocal ==
    pc = "styled" =>
        \A i \in 1..Len(StyledRuns) :
            StyledRuns[i].raises \in {"None", "color"} =>
                run_styles[i][2] =
                    [extract_text_style(StyledRuns[i]) EXCEPT
                        !.color_rgb = IF StyledRuns[i].raises = "color" THEN <<>> ELSE @]

\* the units (paragraphs of text shapes, cells of tables, notes) whose text
\* the walk changed
ChangedUnits ==
    Cardinality({q \in ParagraphPositions :
                    ParagraphText(ParagraphAfter(q)) # ParagraphText(ParagraphBefore(q))})
    + Cardinality({q \in CellPositions :
                      FrameText(CellAfter(q).paragraphs)
                          # FrameText(CellBefore(q).paragraphs)})
    + Cardinality({k \in 1..Len(source) :
                      FrameText(presentation[k].notes.paragraphs)
                          # FrameText(source[k].notes.paragraphs)})

\* C27: when translate returns from a first run on a document of text shapes,
\* tables and notes, its count is the number of units whose text it changed.
CountIsChangedUnits ==
    (pc = "translated" /\ run = 1) => total_replaced = ChangedUnits

\* C27 on the documents in which no font assignment raises
CountIsChangedUnitsOfSoundShapes ==
    (pc = "translated" /\ run = 1
        /\ \A k \in 1..Len(source) : \A i \in 1..Len(source[k].shapes) :
               source[k].shapes[i].raises = "None")
    => total_replaced = ChangedUnits

\* the paragraphs of the first unit (the text shape, or the cell of the
\* table) of a one-slide document
FirstUnitParagraphs(doc) ==
    IF doc[1].shapes[1].kind = "text" THEN doc[1].shapes[1].paragraphs
    ELSE doc[1].shapes[1].rows[1][1].paragraphs

\* C26: in the file generate_translated_pptx.py wrote, a paragraph that had
\* runs and whose text was a key of the map has exactly one run, and its runs
\* together read the translation.
RunLevelLeavesOneRun ==
    pc = "generated" =>
        \A i \in 1..Len(FirstUnitParagraphs(source)) :
            (/\ FirstUnitParagraphs(source)[i].runs # <<>>
             /\ RunsText(FirstUnitParagraphs(source)[i])
                    = strip(edited_slides_data[1].texts[1].original))
            => /\ Len(FirstUnitParagraphs(outputs[1])[i].runs) = 1
               /\ Concat([k \in 1..Len(FirstUnitParagraphs(outputs[1])[i].runs) |->
                              FirstUnitParagraphs(outputs[1])[i].runs[k].text])
                      = strip(edited_slides_data[1].texts[1].translated)

\* C26 for the text alone
RunLevelWritesTranslation ==
    pc = "generated" =>
        \A i \in 1..Len(FirstUnitParagraphs(source)) :
            (/\ FirstUnitParagraphs(source)[i].runs # <<>>
             /\ RunsText(FirstUnitParagraphs(source)[i])
                    = strip(edited_slides_data[1].texts[1].original))
            => Concat([k \in 1..Len(FirstUnitParagraphs(outputs[1])[i].runs) |->
                          FirstUnitParagraphs(outputs[1])[i].runs[k].text])
                   = strip(edited_slides_data[1].texts[1].translated)

=============================================================================
